---- MODULE Spec2Model ----
(***************************************************************************)
(* A model of the typed tree-based genetic programming engine:             *)
(*   - core::Tree<T>, its Builder, getSubTree and replace;                 *)
(*   - Population (evaluateGeneration, select, nextGeneration);            *)
(*   - the grammar's resolution of a node value to its definition.         *)
(* The build modelled is the one the repository's tests run: assert() is   *)
(* compiled in, and a failed assertion aborts the process.                 *)
(* Node ids are 0-based as in the code; TLA+ sequences are 1-based, so     *)
(* node id i lives at position i + 1.                                      *)
(***************************************************************************)
EXTENDS Integers, Sequences, FiniteSets, TLC

VARIABLES
    tree,       \* [genome |-> nodes, subTree |-> nodes]: the two Tree<T> objects
    target,     \* the Tree the live Builder refers to ("genome" or "subTree")
    stack,      \* Builder::stack (node ids of the open parents)
    pc,         \* "run", "aborted" (failed assert), "undefined" (undefined behaviour)
    scenario,   \* "free", or the test function whose calls are replayed
    script,     \* the calls of the replayed test function still to make
    lastOp,     \* the last call made: <<name, node id, whether it was replace(i, s)
                \* made right after s = getSubTree(i)>>
    hist,       \* history of the Builder calls on tree[target] since its construction
    grammar,    \* the Grammar under test: [types, defs] (defs in canonical order)
    lookup,     \* the last resolution made: <<node value, definition id>>, or <<>>
    registered, \* what the grammar was constructed from: [types, definitions]
    individuals,                \* Population::individuals
    fitnesses,                  \* Population::fitnesses
    generation,                 \* Population::generation
    evaluatedGeneration,        \* Population::evaluatedGeneration
    currentBestIndividualId,    \* Population::currentBestIndividualId
    hostFitness,                \* the fitness function of the host's computeFitness
    ppc,                        \* position in Population: "idle", or inside nextGeneration
                                \* "select", "vary", "finish"; "aborted"; "undefined"
    newGeneration,              \* nextGeneration's local newGeneration
    bestIndividual,             \* nextGeneration's local bestIndividual
    count,                      \* select's iterations still to run
    loopIndex,                  \* the index i of nextGeneration's variation loop
    obs,                        \* what was observed: the last public call, the value
                                \* evaluateGeneration returned, counts of calls
    builder,    \* the Tree::Builder a generator writes to: [nodes, stack]
    work,       \* the generator's pending calls, innermost first: <<"generate",
                \* maxDepth, type>> or <<"pop">>
    gpc,        \* "idle", "run", "done", or "undefined" after a draw from an empty range
    request,    \* the call made to the generator: [strategy, maxDepth, type]
    made,       \* for each node of the builder, the maxDepth of the call that made it
    options,    \* InitializationOptions: [populationSize, maxTreeGenomeDepth]
    delegate,   \* the initializer's delegate: "none" (nullptr), "declines" (returns
                \* false) or "root" (the one of testRampedHalfAndHalfInitializer)
    ipc,        \* position in initialize: "idle", "full" (first loop), "grow" (second
                \* loop) or "done"
    index,      \* initialize's i
    depth,      \* initialize's depth, a float: [m, e] stands for m * 2^e
    current,    \* the genome in the making: [strategy, currentDepth, handled, default]
    emitted,    \* what the consumer was called with, one entry per call
    subject,    \* the nodes of the TreeGenome given to the evaluator
    frames,     \* the evaluator's calls of operator() in progress, outermost first:
                \* [node, state, it, arguments]
    callbacks,  \* the host callbacks made so far: [callback, definitionId, node,
                \* arguments]
    epc,        \* "idle", "run", "done" or "aborted" (a failed assert)
    returned,   \* what the outermost operator() returned
    twin,       \* the population of the other of two runs made side by side
    turn,       \* "first": a run is to take a step with fresh draws; "swap": the
                \* other run is brought in; "second": it is to take the same step
                \* with the same draws
    lastDraw    \* the step the first of the two took and what it drew

treeVars == <<tree, target, stack, pc, scenario, script, lastOp, hist>>
grammarVars == <<grammar, lookup, registered>>
popVars == <<individuals, fitnesses, generation, evaluatedGeneration,
             currentBestIndividualId, hostFitness, ppc, newGeneration, bestIndividual,
             count, loopIndex, obs>>
genVars == <<builder, work, gpc, request, made>>
initVars == <<options, delegate, ipc, index, depth, current, emitted>>
evalVars == <<subject, frames, callbacks, epc, returned>>
runVars == <<twin, turn, lastDraw>>
vars == <<treeVars, grammarVars, popVars, genVars, initVars, evalVars, runVars>>

(***************************************************************************)
(* Bounds of the exploration.                                              *)
(***************************************************************************)
\* Builder calls on genome are explored while it has fewer nodes than this.
MaxNodes == 3
\* Builder calls on subTree are explored while it has fewer nodes than this.
MaxSubNodes == 2
\* replace is explored while its result has at most this many nodes.
MaxTreeNodes == 4
\* Grammars are drawn with at most this many definitions, each of at most this weight.
MaxDefinitions == 3
MaxWeight == 2
\* Populations hold at most this many individuals.
MaxIndividuals == 4
\* nextGeneration is explored while generation is below this.
MaxGenerations == 1
\* Mutation and crossover are explored while their results have at most this many nodes.
MaxGenomeNodes == 3
\* Generators are asked for trees of at most this depth.
MaxDepth == 3
\* generate is explored while the builder holds fewer nodes than this.
MaxGeneratedNodes == 12
\* initialize is explored for populations of at most this size and options of at
\* most this depth.
MaxPopulationSize == 12
MaxTreeDepth == 10
\* The evaluator is given trees of at most this many nodes.
MaxEvaluatedNodes == 7
\* The largest population whose tournaments are followed draw by draw.
MaxSelectSize == 5

\* Node values of the free exploration.
Values == {0, 1}
\* enum TestNode { Plus, One, Zero }
Plus == 0
One == 1
Zero == 2
\* Node values the replayed tests use.
TestValues == {Plus, One, Zero, 2, 7, 9, 11, 13, 42, 90}

TreeNames == {"genome", "subTree"}

(***************************************************************************)
(* core::Tree<T>                                                           *)
(***************************************************************************)
NodeStorage(value) == [value |-> value, childCount |-> 0, subTreeSize |-> 1]

\* nodes.push_back(NodeStorage(value)); the id returned is Len(nodes) before the call.
addNode(nodes, value) == Append(nodes, NodeStorage(value))

getNodeCount(nodes) == Len(nodes)

\* The range [first, last) of a vector, by 0-based positions.
Range(nodes, first, last) == SubSeq(nodes, first + 1, last)

\* Mutant of getSubTree: the range stops one node short of the subtree's end.
getSubTreeShort(nodes, subRootNodeId) ==
    Range(nodes, subRootNodeId, subRootNodeId + nodes[subRootNodeId + 1].subTreeSize - 1)

getSubTree(nodes, subRootNodeId) ==
    Range(nodes, subRootNodeId, subRootNodeId + nodes[subRootNodeId + 1].subTreeSize)

\* Mutant of erase: only the node itself is erased, its descendants stay.
eraseNodeOnly(nodes, nodeId) ==
    Range(nodes, 0, nodeId) \o Range(nodes, nodeId + 1, Len(nodes))

\* nodes.erase(begin + nodeId, begin + nodeId + subTreeSize)
erase(nodes, nodeId) ==
    Range(nodes, 0, nodeId)
        \o Range(nodes, nodeId + nodes[nodeId + 1].subTreeSize, Len(nodes))

\* nodes.insert(begin + nodeId, subTree.begin(), subTree.end())
insert(nodes, nodeId, subNodes) ==
    Range(nodes, 0, nodeId) \o subNodes \o Range(nodes, nodeId, Len(nodes))

(***************************************************************************)
(* recomputeSubTreeSizes: the preorder walk of the Enumerator.  The result *)
(* is [nodes, next, size, oob]: the array with the sizes written so far,   *)
(* the enumerator's position, the size returned, and whether advance()     *)
(* read past the end of the array (undefined behaviour).                   *)
(***************************************************************************)
RECURSIVE recomputeSubTreeSizes(_, _)
RECURSIVE recomputeChildren(_, _, _, _)

recomputeChildren(nodes, next, remaining, subTreeSize) ==
    IF remaining = 0
    THEN [nodes |-> nodes, next |-> next, size |-> subTreeSize, oob |-> FALSE]
    ELSE LET c == recomputeSubTreeSizes(nodes, next)
         IN  IF c.oob THEN c
             ELSE recomputeChildren(c.nodes, c.next, remaining - 1, subTreeSize + c.size)

recomputeSubTreeSizes(nodes, parentNodeId) ==
    IF parentNodeId >= Len(nodes)
    THEN [nodes |-> nodes, next |-> parentNodeId + 1, size |-> 0, oob |-> TRUE]
    ELSE IF nodes[parentNodeId + 1].childCount = 0
    THEN [nodes |-> nodes, next |-> parentNodeId + 1, size |-> 1, oob |-> FALSE]
    ELSE LET r == recomputeChildren(nodes, parentNodeId + 1,
                                    nodes[parentNodeId + 1].childCount, 1)
         IN  IF r.oob THEN r
             ELSE [nodes |-> [r.nodes EXCEPT ![parentNodeId + 1].subTreeSize = r.size],
                   next |-> r.next, size |-> r.size, oob |-> FALSE]

\* Mutant of replace: the subtree sizes of the ancestors are not recomputed.
replaceStaleSizes(nodes, nodeId, subNodes) ==
    LET spliced == insert(erase(nodes, nodeId), nodeId, subNodes)
    IN  [nodes |-> spliced, oob |-> spliced = <<>>]

\* Tree::replace up to its final assertion: [nodes, oob].
replace(nodes, nodeId, subNodes) ==
    LET spliced == insert(erase(nodes, nodeId), nodeId, subNodes)
        walk == recomputeSubTreeSizes(spliced, 0)
    IN  [nodes |-> walk.nodes, oob |-> walk.oob]

(***************************************************************************)
(* Tree::Builder, as functions of <<nodes, stack>>.                        *)
(***************************************************************************)
Top(s) == s[Len(s)]
PopBack(s) == SubSeq(s, 1, Len(s) - 1)

push(nodes, stk, value) ==
    LET counted == IF stk # <<>>
                   THEN [nodes EXCEPT ![Top(stk) + 1].childCount = @ + 1]
                   ELSE nodes
    IN  [nodes |-> addNode(counted, value), stack |-> Append(stk, Len(nodes))]

add(nodes, stk, value) ==
    LET added == addNode(nodes, value)
    IN  [nodes |-> IF stk # <<>>
                   THEN [added EXCEPT ![Top(stk) + 1].childCount = @ + 1,
                                      ![Top(stk) + 1].subTreeSize = @ + 1]
                   ELSE added,
         stack |-> stk]

\* Mutant of pop: the closed node's size is not propagated to its parent.
popNoPropagate(nodes, stk) == [nodes |-> nodes, stack |-> PopBack(stk)]

pop(nodes, stk) ==
    LET size == nodes[Top(stk) + 1].subTreeSize
        rest == PopBack(stk)
    IN  [nodes |-> IF rest # <<>>
                   THEN [nodes EXCEPT ![Top(rest) + 1].subTreeSize = @ + size]
                   ELSE nodes,
         stack |-> rest]

(***************************************************************************)
(* The tree operations as actions.  A call is <<name, argument>>.  In the  *)
(* free scenario every call within the bounds may be made; in a replayed   *)
(* test only the next call of the script.                                  *)
(***************************************************************************)
\* testTreeIteration: the eleven Builder calls of its fixture.
testTreeIteration ==
    << <<"push", 2>>, <<"add", 11>>, <<"push", 42>>, <<"add", 13>>, <<"add", 0>>,
       <<"push", 9>>, <<"add", 7>>, <<"pop", 0>>, <<"pop", 0>>, <<"add", 90>>,
       <<"pop", 0>> >>

\* testGenome, third block: build (+ (+ 1 1) 0), getSubTree(1), replace(4), replace(0).
testGenome ==
    << <<"push", Plus>>, <<"push", Plus>>, <<"add", One>>, <<"add", One>>, <<"pop", 0>>,
       <<"add", Zero>>, <<"pop", 0>>, <<"getSubTree", 1>>, <<"replace", 4>>,
       <<"replace", 0>> >>

Scenarios == {"free", "testTreeIteration", "testGenome"}

ScriptOf(s) ==
    IF s = "testTreeIteration" THEN testTreeIteration
    ELSE IF s = "testGenome" THEN testGenome
    ELSE <<>>

Free == scenario = "free"

Allowed(call) == Free \/ (script # <<>> /\ Head(script) = call)

Advance(call) ==
    /\ script' = (IF Free THEN script ELSE Tail(script))
    /\ lastOp' = (IF call[1] = "replace"
                  THEN <<"replace", call[2], lastOp = <<"getSubTree", call[2], FALSE>> /\ pc' = "run">>
                  ELSE IF call[1] = "getSubTree" /\ pc' = "run"
                  THEN <<"getSubTree", call[2], FALSE>>
                  ELSE IF call[1] = "replaceAliased"
                  THEN <<"replaceAliased", call[2], FALSE>>
                  ELSE <<"build", 0, FALSE>>)
    /\ UNCHANGED scenario

\* The history kept for a tree that only its Builder has touched (the Builder is
\* used on a freshly constructed tree, before any getSubTree or replace on it): for each push or
\* add call in call order, the stack top at the call (-1 for none) and the value;
\* for each node, the node count at the time it was closed (0 while it is open).
NoHist == [pure |-> FALSE, parents |-> <<>>, values |-> <<>>, closed |-> <<>>]
NewHist == [pure |-> TRUE, parents |-> <<>>, values |-> <<>>, closed |-> <<>>]

BuildLimit(t) == IF t = "genome" THEN MaxNodes ELSE MaxSubNodes

\* A second tree and its builder, as testGenome's
\* TestTreeType zero; TestTreeType::Builder builder2(zero);
NewSubTree ==
    /\ pc = "run" /\ Free /\ stack = <<>>
    /\ tree' = [tree EXCEPT !.subTree = <<>>]
    /\ target' = "subTree"
    /\ hist' = NewHist
    /\ Advance(<<"new", 0>>)
    /\ UNCHANGED <<stack, pc>>

BuilderPush(value) ==
    /\ pc = "run" /\ hist.pure /\ Allowed(<<"push", value>>)
    /\ Free => (value \in Values /\ Len(tree[target]) < BuildLimit(target))
    /\ LET r == push(tree[target], stack, value)
       IN  /\ tree' = [tree EXCEPT ![target] = r.nodes]
           /\ stack' = r.stack
    /\ hist' = [hist EXCEPT !.parents = Append(@, IF stack = <<>> THEN -1 ELSE Top(stack)),
                            !.values = Append(@, value),
                            !.closed = Append(@, 0)]
    /\ Advance(<<"push", value>>)
    /\ UNCHANGED <<target, pc>>

BuilderAdd(value) ==
    /\ pc = "run" /\ hist.pure /\ Allowed(<<"add", value>>)
    /\ Free => (value \in Values /\ Len(tree[target]) < BuildLimit(target))
    /\ LET r == add(tree[target], stack, value)
       IN  /\ tree' = [tree EXCEPT ![target] = r.nodes]
           /\ stack' = r.stack
    /\ hist' = [hist EXCEPT !.parents = Append(@, IF stack = <<>> THEN -1 ELSE Top(stack)),
                            !.values = Append(@, value),
                            !.closed = Append(@, Len(tree[target]) + 1)]
    /\ Advance(<<"add", value>>)
    /\ UNCHANGED <<target, pc>>

BuilderPop ==
    /\ pc = "run" /\ hist.pure /\ Allowed(<<"pop", 0>>)
    /\ IF stack = <<>>
       THEN \* assert(!stack.empty())
            /\ pc' = "aborted"
            /\ UNCHANGED <<tree, stack, hist>>
       ELSE /\ LET r == pop(tree[target], stack)
               IN  /\ tree' = [tree EXCEPT ![target] = r.nodes]
                   /\ stack' = r.stack
            /\ hist' = [hist EXCEPT !.closed[Top(stack) + 1] = Len(tree[target])]
            /\ UNCHANGED pc
    /\ Advance(<<"pop", 0>>)
    /\ UNCHANGED target

\* Mutant of GetSubTree: the range is moved out of the source tree, not copied.
GetSubTreeMoved(subRootNodeId) ==
    /\ pc = "run" /\ stack = <<>> /\ Allowed(<<"getSubTree", subRootNodeId>>)
    /\ subRootNodeId < Len(tree.genome)
    /\ tree' = [genome |-> erase(tree.genome, subRootNodeId),
                subTree |-> getSubTree(tree.genome, subRootNodeId)]
    /\ target' = "genome"
    /\ hist' = IF target = "genome" THEN hist ELSE NoHist
    /\ UNCHANGED <<stack, pc>>
    /\ Advance(<<"getSubTree", subRootNodeId>>)

\* auto subTree = genome.getSubTree(subRootNodeId);
GetSubTree(subRootNodeId) ==
    /\ pc = "run" /\ stack = <<>> /\ Allowed(<<"getSubTree", subRootNodeId>>)
    /\ IF subRootNodeId < Len(tree.genome)
       THEN /\ tree' = [tree EXCEPT !.subTree = getSubTree(tree.genome, subRootNodeId)]
            /\ UNCHANGED pc
       ELSE \* assert(subRootNodeId < nodes.size())
            /\ pc' = "aborted"
            /\ UNCHANGED tree
    /\ target' = "genome"
    /\ hist' = IF target = "genome" THEN hist ELSE NoHist
    /\ Advance(<<"getSubTree", subRootNodeId>>)
    /\ UNCHANGED stack

\* genome.replace(nodeId, subTree);
Replace(nodeId) ==
    /\ pc = "run" /\ stack = <<>> /\ Allowed(<<"replace", nodeId>>)
    /\ IF nodeId >= Len(tree.genome)
       THEN \* assert(nodeId < nodes.size())
            /\ pc' = "aborted"
            /\ UNCHANGED tree
       ELSE LET r == replace(tree.genome, nodeId, tree.subTree)
                spliced == insert(erase(tree.genome, nodeId), nodeId, tree.subTree)
            IN  /\ Free => Len(spliced) <= MaxTreeNodes
                /\ IF r.oob
                   THEN \* advance() read past the end of the array
                        /\ pc' = "undefined"
                        /\ \E outcome \in {r.nodes, spliced} :
                               tree' = [tree EXCEPT !.genome = outcome]
                   ELSE /\ tree' = [tree EXCEPT !.genome = r.nodes]
                        \* assert(nodes[0].subTreeSize == nodes.size())
                        /\ pc' = IF r.nodes[1].subTreeSize = Len(r.nodes)
                                 THEN "run" ELSE "aborted"
    /\ hist' = IF target = "genome" THEN NoHist ELSE hist
    /\ Advance(<<"replace", nodeId>>)
    /\ UNCHANGED <<target, stack>>

\* genome.replace(nodeId, genome): subTree is the tree itself.  erase has
\* shortened subTree.nodes when insert reads it, and insert is given iterators
\* into the vector it inserts into, which has no defined result; the
\* implementations copy the range as it is after erase.  recomputeSubTreeSizes
\* may have run on that or not.
ReplaceAliased(nodeId) ==
    /\ pc = "run" /\ stack = <<>> /\ Allowed(<<"replaceAliased", nodeId>>)
    /\ IF nodeId >= Len(tree.genome)
       THEN \* assert(nodeId < nodes.size())
            /\ pc' = "aborted"
            /\ UNCHANGED tree
       ELSE LET erased == erase(tree.genome, nodeId)
                spliced == insert(erased, nodeId, erased)
                walk == recomputeSubTreeSizes(spliced, 0)
            IN  /\ Len(spliced) <= MaxTreeNodes
                /\ pc' = "undefined"
                /\ \E outcome \in {spliced, walk.nodes} :
                       tree' = [tree EXCEPT !.genome = outcome]
    /\ hist' = IF target = "genome" THEN NoHist ELSE hist
    /\ Advance(<<"replaceAliased", nodeId>>)
    /\ UNCHANGED <<target, stack>>

InitTree ==
    /\ tree = [genome |-> <<>>, subTree |-> <<>>]
    /\ target = "genome"
    /\ stack = <<>>
    /\ pc = "run"
    /\ scenario \in Scenarios
    /\ script = ScriptOf(scenario)
    /\ lastOp = <<"build", 0, FALSE>>
    /\ hist = NewHist

NextTree ==
    \/ NewSubTree /\ UNCHANGED <<grammarVars, popVars, genVars, initVars, evalVars, runVars>>
    \/ (\E value \in Values \cup TestValues : BuilderPush(value))
           /\ UNCHANGED <<grammarVars, popVars, genVars, initVars, evalVars, runVars>>
    \/ (\E value \in Values \cup TestValues : BuilderAdd(value))
           /\ UNCHANGED <<grammarVars, popVars, genVars, initVars, evalVars, runVars>>
    \/ BuilderPop /\ UNCHANGED <<grammarVars, popVars, genVars, initVars, evalVars, runVars>>
    \/ (\E nodeId \in 0..(MaxTreeNodes + 3) : GetSubTree(nodeId))
           /\ UNCHANGED <<grammarVars, popVars, genVars, initVars, evalVars, runVars>>
    \/ (\E nodeId \in 0..(MaxTreeNodes + 3) : Replace(nodeId))
           /\ UNCHANGED <<grammarVars, popVars, genVars, initVars, evalVars, runVars>>
    \/ (\E nodeId \in 0..(MaxTreeNodes + 3) : ReplaceAliased(nodeId))
           /\ UNCHANGED <<grammarVars, popVars, genVars, initVars, evalVars, runVars>>

NoGrammar == [types |-> <<>>, definitions |-> <<>>]

InitGrammarIdle ==
    /\ grammar = [types |-> <<>>, defs |-> <<>>]
    /\ lookup = <<>>
    /\ registered = NoGrammar

InitTreeIdle ==
    /\ tree = [genome |-> <<>>, subTree |-> <<>>]
    /\ target = "genome"
    /\ stack = <<>>
    /\ pc = "idle"
    /\ scenario = "free"
    /\ script = <<>>
    /\ lastOp = <<"build", 0, FALSE>>
    /\ hist = NoHist

\* What is observed of a population: the last public call; the index the last
\* evaluateGeneration returned (-1 if none); the calls of the host's computeFitness
\* in the current generation (up to 2); the evaluateGeneration calls made in a row
\* (up to 3); the calls of initialize; whether initialize was called after the
\* current generation was evaluated; whether the variation loop crossed its last
\* index over with a partner drawn at random.
NoObs == [call |-> "none", returned |-> -1, computeCalls |-> 0, requests |-> 0,
          initCalls |-> 0, initSinceCompute |-> FALSE, vary |-> "none"]

InitPopIdle ==
    /\ individuals = <<>> /\ fitnesses = <<>> /\ generation = 0
    /\ evaluatedGeneration = -1 /\ currentBestIndividualId = 0
    /\ hostFitness = "none" /\ ppc = "none" /\ newGeneration = <<>>
    /\ bestIndividual = 0 /\ count = 0 /\ loopIndex = 0 /\ obs = NoObs

NoRequest == [strategy |-> "none", maxDepth |-> 0, type |-> 0]

InitGenIdle ==
    /\ builder = [nodes |-> <<>>, stack |-> <<>>]
    /\ work = <<>>
    /\ gpc = "idle"
    /\ request = NoRequest
    /\ made = <<>>

\* Floats: [m, e] stands for m * 2^e, with 2^23 <= m < 2^24 as in a float of 24
\* significant bits.
FloatOne == [m |-> 2 ^ 23, e |-> 0 - 23]

NoGenome == [strategy |-> "none", currentDepth |-> 0, handled |-> FALSE, default |-> FALSE]

InitInitIdle ==
    /\ options = [populationSize |-> 0, maxTreeGenomeDepth |-> 0]
    /\ delegate = "none"
    /\ ipc = "idle"
    /\ index = 0
    /\ depth = FloatOne
    /\ current = NoGenome
    /\ emitted = <<>>

InitEvalIdle ==
    /\ subject = <<>>
    /\ frames = <<>>
    /\ callbacks = <<>>
    /\ epc = "idle"
    /\ returned = -1

NoDraw == [action |-> "none", draw |-> <<>>]

InitRunsIdle ==
    /\ twin = <<>>
    /\ turn = "idle"
    /\ lastDraw = NoDraw

InitSpecTree ==
    InitTree /\ InitGrammarIdle /\ InitPopIdle /\ InitGenIdle /\ InitInitIdle /\ InitEvalIdle /\ InitRunsIdle

SpecTree == InitSpecTree /\ [][NextTree]_vars

(***************************************************************************)
(* grammar::Grammar.  A definition given to the constructor is             *)
(* [name, kind, type, weight, args]; types are ids in registration order.  *)
(* The constructor reorders the definitions (the terminals type by type,   *)
(* then the functions type by type), numbers them and gives each the       *)
(* running sum of the weights before it as its node value.                 *)
(***************************************************************************)
Bucket(definitions, kind, type) ==
    SelectSeq(definitions, LAMBDA d : d.kind = kind /\ d.type = type)

RECURSIVE Buckets(_, _, _)
Buckets(definitions, kind, types) ==
    IF types = <<>> THEN <<>>
    ELSE Bucket(definitions, kind, Head(types)) \o Buckets(definitions, kind, Tail(types))

\* Mutant of CanonicalOrder: the definitions stay in the order of registration.
RegistrationOrder(types, definitions) == definitions

CanonicalOrder(types, definitions) ==
    Buckets(definitions, "terminal", types) \o Buckets(definitions, "function", types)

\* Mutant of Weights: every definition counts as one value.
WeightsAsCount(definitions) == Len(definitions)

RECURSIVE Weights(_)
Weights(definitions) ==
    IF definitions = <<>> THEN 0
    ELSE Head(definitions).weight + Weights(Tail(definitions))

Grammar(types, definitions) ==
    LET ordered == CanonicalOrder(types, definitions)
    IN  [types |-> types,
         defs |-> [k \in 1..Len(ordered) |->
                     [name |-> ordered[k].name,
                      definitionId |-> k - 1,
                      nodeValue |-> Weights(SubSeq(ordered, 1, k - 1)),
                      weight |-> ordered[k].weight,
                      kind |-> ordered[k].kind,
                      type |-> ordered[k].type,
                      args |-> ordered[k].args]]]

getTerminalLimit(g) == Weights(SelectSeq(g.defs, LAMBDA d : d.kind = "terminal"))
getFunctionLimit(g) == Weights(SelectSeq(g.defs, LAMBDA d : d.kind = "function"))
getNodeLimit(g) == getTerminalLimit(g) + getFunctionLimit(g)

\* The binary search for the first definition whose node value exceeds the value,
\* in the half-open range [lo, hi) of definition ids.
RECURSIVE UpperBound(_, _, _, _)
UpperBound(defs, value, lo, hi) ==
    IF lo >= hi THEN lo
    ELSE LET mid == (lo + hi) \div 2
         IN  IF defs[mid + 1].nodeValue <= value
             THEN UpperBound(defs, value, mid + 1, hi)
             ELSE UpperBound(defs, value, lo, mid)

\* Mutant of definitionIdForTreeGenomeValue: the search keeps the definition
\* after the last one whose node value does not exceed the value.
definitionIdOffByOne(g, value) ==
    LET id == UpperBound(g.defs, value, 0, Len(g.defs))
    IN  IF id < Len(g.defs) THEN id ELSE id - 1

\* The largest definition id whose node value is <= value.
definitionIdForTreeGenomeValue(g, value) ==
    UpperBound(g.defs, value, 0, Len(g.defs)) - 1

\* grammar[node].getType()
getType(g, value) == g.defs[definitionIdForTreeGenomeValue(g, value) + 1].type

(***************************************************************************)
(* The grammars drawn for the resolution of node values: one or two types, *)
(* up to MaxDefinitions definitions of weight 1..MaxWeight, functions      *)
(* unary over their own type.                                              *)
(***************************************************************************)
TypeLists == {<<0>>, <<0, 1>>}

DefinitionChoices(types) ==
    [kind : {"terminal", "function"},
     type : {types[k] : k \in 1..Len(types)},
     weight : 1..MaxWeight]

Registered(c, k) ==
    [name |-> ToString(k), kind |-> c.kind, type |-> c.type, weight |-> c.weight,
     args |-> IF c.kind = "function" THEN <<c.type>> ELSE <<>>]

\* terminal(name, type, weight) and the functions of 1, 2 and 3 arguments.
terminal(name, type, weight) ==
    [name |-> name, kind |-> "terminal", type |-> type, weight |-> weight, args |-> <<>>]
function(name, type, args, weight) ==
    [name |-> name, kind |-> "function", type |-> type, weight |-> weight, args |-> args]

\* The grammar of testTreeGenomeGrammar: one type, int.
testTreeGenomeGrammar ==
    [types |-> <<0>>,
     definitions |-> << terminal("x", 0, 10), terminal("y", 0, 10),
                        function("+", 0, <<0, 0>>, 5), function("*", 0, <<0, 0>>, 11),
                        function("sin", 0, <<0>>, 3) >>]

\* The grammar of testTreeGenomeTypedGrammar: float is type 0, float3 is type 1.
testTreeGenomeTypedGrammar ==
    [types |-> <<0, 1>>,
     definitions |-> << terminal("x", 0, 10), terminal("randomColor", 1, 5),
                        terminal("y", 0, 10), terminal("orange", 1, 1),
                        function("+", 0, <<0, 0>>, 5), function("rgb", 1, <<0, 0, 0>>, 5),
                        function("darker", 1, <<1, 0>>, 2), function("*", 0, <<0, 0>>, 11),
                        function("lighter", 1, <<1, 0>>, 2), function("sin", 0, <<0>>, 3),
                        function("grayscale", 1, <<1>>, 8), function("cos", 0, <<0>>, 6) >>]

InitGrammar ==
    /\ \/ \E types \in TypeLists :
          \E n \in 1..MaxDefinitions :
          \E choice \in [1..n -> DefinitionChoices(types)] :
              registered = [types |-> types,
                            definitions |-> [k \in 1..n |-> Registered(choice[k], k)]]
       \/ registered \in {testTreeGenomeGrammar, testTreeGenomeTypedGrammar}
    /\ grammar = Grammar(registered.types, registered.definitions)
    /\ lookup = <<>>

\* grammar.definitionIdForTreeGenomeValue(value), for a value the grammar produces.
Lookup(value) ==
    /\ value < getNodeLimit(grammar)
    /\ lookup' = <<value, definitionIdForTreeGenomeValue(grammar, value)>>
    /\ UNCHANGED <<grammar, registered>>

NextGrammar ==
    (\E value \in 0..(getNodeLimit(grammar) - 1) : Lookup(value))
        /\ UNCHANGED <<treeVars, popVars, genVars, initVars, evalVars, runVars>>

InitSpecGrammar ==
    InitGrammar /\ InitTreeIdle /\ InitPopIdle /\ InitGenIdle /\ InitInitIdle /\ InitEvalIdle /\ InitRunsIdle

SpecGrammar == InitSpecGrammar /\ [][NextGrammar]_vars

(***************************************************************************)
(* Population and its host (EvolvingPopulationDelegate).  The host's       *)
(* grammar has the types 0 and 1, the terminals x : 0 and c : 1 and the    *)
(* unary functions f(0) : 0 and g(1) : 0, each of weight 1.                *)
(***************************************************************************)
PopGrammar ==
    Grammar(<<0, 1>>,
            << [name |-> "x", kind |-> "terminal", type |-> 0, weight |-> 1, args |-> <<>>],
               [name |-> "f", kind |-> "function", type |-> 0, weight |-> 1, args |-> <<0>>],
               [name |-> "g", kind |-> "function", type |-> 0, weight |-> 1, args |-> <<1>>],
               [name |-> "c", kind |-> "terminal", type |-> 1, weight |-> 1, args |-> <<>>] >>)

\* The node value of the definition with the given name.
ValueOf(name) == (CHOOSE d \in {PopGrammar.defs[k] : k \in 1..Len(PopGrammar.defs)} :
                      d.name = name).nodeValue

\* The tree a sequence of Builder calls makes.
RECURSIVE Build(_, _, _)
Build(nodes, stk, calls) ==
    IF calls = <<>> THEN nodes
    ELSE LET call == Head(calls)
             r == IF call[1] = "push" THEN push(nodes, stk, call[2])
                  ELSE IF call[1] = "add" THEN add(nodes, stk, call[2])
                  ELSE pop(nodes, stk)
         IN  Build(r.nodes, r.stack, Tail(calls))

TreeX == Build(<<>>, <<>>, << <<"add", ValueOf("x")>> >>)
TreeC == Build(<<>>, <<>>, << <<"add", ValueOf("c")>> >>)
TreeFX == Build(<<>>, <<>>, << <<"push", ValueOf("f")>>, <<"add", ValueOf("x")>>, <<"pop", 0>> >>)
TreeGC == Build(<<>>, <<>>, << <<"push", ValueOf("g")>>, <<"add", ValueOf("c")>>, <<"pop", 0>> >>)

\* The genomes the initializer emits.
InitialGenomes == {TreeX, TreeGC}

\* The trees generateRandomTreeOfType(type) may return.
generateRandomTreeOfType(type) == IF type = 0 THEN {TreeX, TreeFX} ELSE {TreeC}

\* The fitness functions of the host: of a genome alone, larger is fitter.
HostFitnesses == {"large", "small"}
computeFitnessForIndividual(kind, genome) ==
    IF kind = "large" THEN getNodeCount(genome) ELSE 0 - getNodeCount(genome)

\* computeFitness: fitnesses[i] is written for every i < individuals.size().
computeFitness(kind, inds, fit) ==
    [k \in 1..Len(fit) |->
        IF k <= Len(inds) THEN computeFitnessForIndividual(kind, inds[k]) ELSE fit[k]]

\* size_t arithmetic wraps around; the width is shortened to 16 bits.
WrapSize(n) == n % (2 ^ 16)

\* Mutant of isEvaluated: the evaluation is never taken from the cache.
neverEvaluated(evaluated, gen) == FALSE

\* evaluatedGeneration == generation
isEvaluated(evaluated, gen) == evaluated = gen

\* Mutant of bestOf: on equal fitness the later individual wins.
RECURSIVE bestOfLast(_, _, _, _)
bestOfLast(fit, n, k, best) ==
    IF k >= n THEN best
    ELSE bestOfLast(fit, n, k + 1, IF fit[best + 1] <= fit[k + 1] THEN k ELSE best)

\* The loop of evaluateGeneration over i < n, from i = k with bestIndividual = best.
RECURSIVE bestOf(_, _, _, _)
bestOf(fit, n, k, best) ==
    IF k >= n THEN best
    ELSE bestOf(fit, n, k + 1, IF fit[best + 1] < fit[k + 1] THEN k ELSE best)

\* evaluateGeneration: what it does ("cached", "computed", "aborted" by its
\* assertion, "undefined" when the host writes past the end of fitnesses), the
\* fitnesses it leaves and the index it returns.
evaluateGeneration ==
    IF isEvaluated(evaluatedGeneration, generation)
    THEN [status |-> "cached", fit |-> fitnesses, best |-> currentBestIndividualId]
    ELSE IF Len(individuals) > Len(fitnesses)
    THEN [status |-> "undefined", fit |-> fitnesses, best |-> 0]
    ELSE LET fit == computeFitness(hostFitness, individuals, fitnesses)
         IN  IF Len(fit) # Len(individuals)
             THEN [status |-> "aborted", fit |-> fit, best |-> 0]
             ELSE [status |-> "computed", fit |-> fit,
                   best |-> bestOf(fit, Len(individuals), 0, 0)]

Min(a, b) == IF a < b THEN a ELSE b

\* What is observed of a call of evaluateGeneration with result r.
Observe(call, r) ==
    [obs EXCEPT !.call = call,
                !.returned = IF r.status \in {"cached", "computed"} THEN r.best ELSE -1,
                !.requests = Min(@ + 1, 3),
                !.computeCalls = IF r.status = "cached" THEN @ ELSE Min(@ + 1, 2),
                !.initSinceCompute = IF r.status = "cached" THEN @ ELSE FALSE]

\* The state evaluateGeneration leaves when it returns.
Evaluated(r) ==
    /\ fitnesses' = r.fit
    /\ currentBestIndividualId' = r.best
    /\ evaluatedGeneration' = generation

\* The state evaluateGeneration leaves when it does not return: the host has
\* written the fitnesses; after a write past the end the memory is arbitrary.
NotEvaluated(r) ==
    /\ ppc' = r.status
    /\ IF r.status = "undefined"
       THEN \E fit \in {fitnesses, computeFitness(hostFitness, individuals, fitnesses)} :
                fitnesses' = fit
       ELSE fitnesses' = r.fit
    /\ UNCHANGED <<currentBestIndividualId, evaluatedGeneration>>

\* Population(size, params, delegate)
InitPop ==
    /\ \E size \in 1..MaxIndividuals : fitnesses = [k \in 1..size |-> 0]
    /\ hostFitness \in HostFitnesses
    /\ individuals = <<>>
    /\ generation = 0
    /\ evaluatedGeneration = -1
    /\ currentBestIndividualId = 0
    /\ ppc = "idle"
    /\ newGeneration = <<>> /\ bestIndividual = 0 /\ count = 0 /\ loopIndex = 0
    /\ obs = NoObs

\* initialize(maxDepth, init): the initializer emits fitnesses.size() genomes.
Initialize ==
    /\ ppc = "idle"
    /\ Len(individuals) + Len(fitnesses) <= MaxIndividuals
    /\ \E genomes \in [1..Len(fitnesses) -> InitialGenomes] :
           individuals' = individuals \o genomes
    /\ obs' = [obs EXCEPT !.call = "initialize", !.returned = -1, !.requests = 0,
                          !.initCalls = @ + 1,
                          !.initSinceCompute = @ \/ evaluatedGeneration = generation]
    /\ UNCHANGED <<fitnesses, generation, evaluatedGeneration, currentBestIndividualId,
                   hostFitness, ppc, newGeneration, bestIndividual, count, loopIndex>>

\* evaluateGeneration() called by the host.
EvaluateGeneration ==
    /\ ppc = "idle"
    /\ LET r == evaluateGeneration
       IN  /\ obs' = Observe("evaluate", r)
           /\ IF r.status \in {"cached", "computed"}
              THEN Evaluated(r) /\ UNCHANGED ppc
              ELSE NotEvaluated(r)
    /\ UNCHANGED <<individuals, generation, hostFitness, newGeneration, bestIndividual,
                   count, loopIndex>>

\* Mutant of selectCount: one slot more is filled by the tournaments.
selectCountTwo(size) == WrapSize(size - 2)

\* individuals.size() - 3, the count nextGeneration passes to select.
selectCount(size) == WrapSize(size - 3)

\* Mutant of tournament: in the second of two runs the winner does not come from
\* the fitnesses, as with a choice that is not drawn from params.rng.
tournamentUnseeded(fit, s) ==
    IF turn = "second" THEN s[0]
    ELSE LET first == s[0]
             second == IF fit[s[1] + 1] > fit[first + 1] THEN s[1] ELSE first
         IN  IF fit[s[2] + 1] > fit[second + 1] THEN s[2] ELSE second

\* Mutant of tournament: a later one also wins when it is as fit.
tournamentLastSeen(fit, s) ==
    LET first == s[0]
        second == IF fit[s[1] + 1] >= fit[first + 1] THEN s[1] ELSE first
    IN  IF fit[s[2] + 1] >= fit[second + 1] THEN s[2] ELSE second

\* The winner of the tournament of s[0], s[1], s[2]: a later one only if fitter.
tournament(fit, s) ==
    LET first == s[0]
        second == IF fit[s[1] + 1] > fit[first + 1] THEN s[1] ELSE first
    IN  IF fit[s[2] + 1] > fit[second + 1] THEN s[2] ELSE second

\* Tree::replace with its assertions: [nodes, status].
replaceChecked(nodes, nodeId, subNodes) ==
    IF nodeId >= Len(nodes) THEN [nodes |-> nodes, status |-> "aborted"]
    ELSE LET r == replace(nodes, nodeId, subNodes)
         IN  IF r.oob THEN [nodes |-> r.nodes, status |-> "undefined"]
             ELSE IF r.nodes[1].subTreeSize # Len(r.nodes)
             THEN [nodes |-> r.nodes, status |-> "aborted"]
             ELSE [nodes |-> r.nodes, status |-> "ok"]

\* Mutant of selectRandomNodeWithType: the type is not looked at.
selectRandomNodeOfAnyType(genome, type) == 0..(Len(genome) - 1)

\* The nodes selectRandomNodeWithType may return; none when the type has no node.
selectRandomNodeWithType(genome, type) ==
    {n \in 0..(Len(genome) - 1) : getType(grammar, genome[n + 1].value) = type}

\* Mutant of appendElite: the third copy of the best individual is left out.
appendNothing(newGen, elite) == newGen

\* newGeneration.push_back(individuals[bestIndividual].copy())
appendElite(newGen, elite) == Append(newGen, elite)

\* nextGeneration up to the call of select: the evaluation, the two elites and
\* the assertion of select.
NextGenerationBegin ==
    /\ ppc = "idle"
    /\ generation < MaxGenerations
    /\ LET r == evaluateGeneration
       IN  /\ obs' = [Observe("nextGeneration", r) EXCEPT !.vary = "none"]
           /\ IF r.status \in {"cached", "computed"}
              THEN /\ Evaluated(r)
                   /\ bestIndividual' = r.best
                   /\ count' = selectCount(Len(individuals))
                   /\ IF r.best >= Len(individuals)
                      THEN ppc' = "undefined" /\ UNCHANGED newGeneration
                      ELSE /\ newGeneration' = <<individuals[r.best + 1],
                                                 individuals[r.best + 1]>>
                           /\ ppc' = IF count' # 0 /\ count' <= Len(individuals)
                                     THEN "select" ELSE "aborted"
              ELSE NotEvaluated(r) /\ UNCHANGED <<newGeneration, bestIndividual, count>>
    /\ UNCHANGED <<individuals, generation, hostFitness, loopIndex>>

\* One iteration of the loop of select; a sample at or past fitnesses.size()
\* reads past the end of fitnesses, after which any of the three may win.
SelectStepWith(s) ==
    /\ ppc = "select"
    /\ count' = count - 1
    /\ IF \E j \in 0..2 : s[j] >= Len(fitnesses)
       THEN /\ ppc' = "undefined"
            /\ \E j \in 0..2 :
                   newGeneration' = Append(newGeneration, individuals[s[j] + 1])
       ELSE /\ ppc' = IF count' = 0 THEN "vary" ELSE "select"
            /\ newGeneration' =
                   Append(newGeneration, individuals[tournament(fitnesses, s) + 1])
    /\ loopIndex' = 0
    /\ UNCHANGED <<individuals, fitnesses, generation, evaluatedGeneration,
                   currentBestIndividualId, hostFitness, bestIndividual>>
    /\ obs' = [obs EXCEPT !.requests = 0]

\* The draws of one tournament: three indices of individuals.
SelectDraws == [0..2 -> 0..(Len(individuals) - 1)]

SelectStep == \E s \in SelectDraws : SelectStepWith(s)

\* The end of an iteration of the variation loop, step being what i advanced by.
AfterVary(newGen, step, status) ==
    /\ newGeneration' = newGen
    /\ loopIndex' = loopIndex + step
    /\ ppc' = IF status # "ok" THEN status
              ELSE IF loopIndex' < Len(newGen) THEN "vary" ELSE "finish"
    /\ UNCHANGED <<individuals, fitnesses, generation, evaluatedGeneration,
                   currentBestIndividualId, hostFitness, bestIndividual, count>>

\* p above both rates: newGeneration[i] stays as it is.
Reproduce ==
    /\ ppc = "vary"
    /\ AfterVary(newGeneration, 1, "ok")
    /\ UNCHANGED obs

\* Mutant of mutate: the tree replaces the whole genome.
mutateRoot(genome, nodeId, subTree) == replaceChecked(genome, 0, subTree)

\* mutate(genome) with nodeId the node selected and subTree the host's tree:
\* genome.replace(nodeId, subTree).
mutate(genome, nodeId, subTree) == replaceChecked(genome, nodeId, subTree)

\* p <= mutationRate: mutate(newGeneration[i]).
MutateWith(nodeId, subTree) ==
    /\ ppc = "vary"
    /\ LET genome == newGeneration[loopIndex + 1]
           r == mutate(genome, nodeId, subTree)
       IN  /\ Len(r.nodes) <= MaxGenomeNodes
           /\ AfterVary([newGeneration EXCEPT ![loopIndex + 1] = r.nodes], 1, r.status)
    /\ UNCHANGED obs

\* The draws of mutate: the node selectRandomNode returns and the tree the host's
\* generateRandomTreeOfType makes for its type.
MutateDraws ==
    IF ppc # "vary" THEN {}
    ELSE LET genome == newGeneration[loopIndex + 1]
         IN  UNION { { <<nodeId, subTree>> :
                           subTree \in generateRandomTreeOfType(
                                           getType(grammar, genome[nodeId + 1].value)) } :
                     nodeId \in 0..(getNodeCount(genome) - 1) }

Mutate == \E drawn \in MutateDraws : MutateWith(drawn[1], drawn[2])

\* Mutant of crossover: the subtrees are swapped at the root of other, whatever
\* node was selected.
crossoverAtRoot(genome, i, other, j) ==
    LET x == getSubTree(genome, i)
        y == getSubTree(other, 0)
    IN  [genome |-> replaceChecked(genome, i, y), other |-> replaceChecked(other, 0, x)]

\* Mutant of crossover: x is taken from genome after y has been put into it.
crossoverLate(genome, i, other, j) ==
    LET y == getSubTree(other, j)
        a == replaceChecked(genome, i, y)
        x == getSubTree(a.nodes, i)
    IN  [genome |-> a, other |-> replaceChecked(other, j, x)]

\* crossover(genome, i, type, other) with j the node selected in other:
\* x = genome.getSubTree(i), y = other.getSubTree(j); genome.replace(i, y);
\* other.replace(j, x).
crossover(genome, i, other, j) ==
    LET x == getSubTree(genome, i)
        y == getSubTree(other, j)
    IN  [genome |-> replaceChecked(genome, i, y), other |-> replaceChecked(other, j, x)]

\* Mutant of partnerIndex: the draw is used as it is.
partnerAsDrawn(drawn, walked) == drawn

\* if (next == i) next = i - 1, in size_t arithmetic.
partnerIndex(drawn, walked) == IF drawn = walked THEN WrapSize(walked - 1) ELSE drawn

\* mutationRate < p <= mutationRate + crossoverRate: crossover with the next
\* individual, or with a random one when i is the last index.
\* drawn is the partner's index (i + 1, or random(size - 1) for the last i),
\* genomeIndex the node selectRandomNode returns and j the node
\* selectRandomNodeWithType draws when the partner has one of the type.
CrossoverWith(drawn, genomeIndex, j) ==
    /\ ppc = "vary"
    /\ LET size == Len(newGeneration)
           last == loopIndex + 1 = size
           next == partnerIndex(drawn, loopIndex)
           genome == newGeneration[loopIndex + 1]
           other == newGeneration[next + 1]
           type == getType(grammar, genome[genomeIndex + 1].value)
           selection == selectRandomNodeWithType(other, type)
       IN  IF selection = {}
           THEN /\ AfterVary(newGeneration, 2, "ok")
                /\ obs' = [obs EXCEPT !.vary = "failed"]
           ELSE LET crossed == crossover(genome, genomeIndex, other, j)
                    a == crossed.genome
                    b == crossed.other
                IN  /\ Len(a.nodes) <= MaxGenomeNodes
                    /\ Len(b.nodes) <= MaxGenomeNodes
                    /\ AfterVary([newGeneration EXCEPT ![loopIndex + 1] = a.nodes,
                                                       ![next + 1] = b.nodes],
                                 2,
                                 IF a.status # "ok" THEN a.status ELSE b.status)
                    /\ obs' = [obs EXCEPT !.vary = IF last THEN "lastRandom" ELSE @]

\* The draws of a crossover; nothing is drawn for j when the partner has no node
\* of the type.
CrossoverDraws ==
    IF ppc # "vary" THEN {}
    ELSE LET size == Len(newGeneration)
             last == loopIndex + 1 = size
             genome == newGeneration[loopIndex + 1]
         IN  UNION { UNION { LET next == partnerIndex(drawn, loopIndex)
                                 type == getType(grammar, genome[genomeIndex + 1].value)
                                 selection == selectRandomNodeWithType(
                                                  newGeneration[next + 1], type)
                             IN  { <<drawn, genomeIndex, j>> :
                                       j \in IF selection = {} THEN {0} ELSE selection } :
                             genomeIndex \in 0..(getNodeCount(genome) - 1) } :
                     drawn \in (IF last THEN 0..(size - 1) ELSE {loopIndex + 1}) }

Crossover == \E drawn \in CrossoverDraws : CrossoverWith(drawn[1], drawn[2], drawn[3])

\* The end of nextGeneration: the third elite, the move and ++generation.
NextGenerationEnd ==
    /\ ppc = "finish"
    /\ individuals' = appendElite(newGeneration, individuals[bestIndividual + 1])
    /\ generation' = generation + 1
    /\ ppc' = "idle"
    /\ newGeneration' = <<>> /\ bestIndividual' = 0 /\ count' = 0 /\ loopIndex' = 0
    /\ obs' = [obs EXCEPT !.computeCalls = 0]
    /\ UNCHANGED <<fitnesses, evaluatedGeneration, currentBestIndividualId, hostFitness>>

NextPop ==
    \/ Initialize /\ UNCHANGED <<treeVars, grammarVars, genVars, initVars, evalVars, runVars>>
    \/ EvaluateGeneration /\ UNCHANGED <<treeVars, grammarVars, genVars, initVars, evalVars, runVars>>
    \/ NextGenerationBegin /\ UNCHANGED <<treeVars, grammarVars, genVars, initVars, evalVars, runVars>>
    \/ SelectStep /\ UNCHANGED <<treeVars, grammarVars, genVars, initVars, evalVars, runVars>>
    \/ Reproduce /\ UNCHANGED <<treeVars, grammarVars, genVars, initVars, evalVars, runVars>>
    \/ Mutate /\ UNCHANGED <<treeVars, grammarVars, genVars, initVars, evalVars, runVars>>
    \/ Crossover /\ UNCHANGED <<treeVars, grammarVars, genVars, initVars, evalVars, runVars>>
    \/ NextGenerationEnd /\ UNCHANGED <<treeVars, grammarVars, genVars, initVars, evalVars, runVars>>

\* The host's grammar is the one the population is constructed with.
InitSpecPop ==
    /\ InitPop
    /\ grammar = PopGrammar /\ lookup = <<>> /\ registered = NoGrammar
    /\ InitTreeIdle
    /\ InitGenIdle
    /\ InitInitIdle
    /\ InitEvalIdle /\ InitRunsIdle

SpecPop == InitSpecPop /\ [][NextPop]_vars

(***************************************************************************)
(* Grammar::TypeDefinitionSet: the terminals and the functions of one      *)
(* type, or of all types for invalidTypeId.  The type-constrained values   *)
(* run over the values of the terminals and then over those of the         *)
(* functions; typeConstrainedFunctionLimit is the end of the whole range.  *)
(***************************************************************************)
invalidTypeId == -1

definitionSetForType(g, type) ==
    [terminals |-> SelectSeq(g.defs, LAMBDA d : d.kind = "terminal"
                                                  /\ (type = invalidTypeId \/ d.type = type)),
     functions |-> SelectSeq(g.defs, LAMBDA d : d.kind = "function"
                                                  /\ (type = invalidTypeId \/ d.type = type))]

hasTerminals(set) == set.terminals # <<>>
hasFunctions(set) == set.functions # <<>>

typeConstrainedTerminalLimit(set) == Weights(set.terminals)
typeConstrainedFunctionLimit(set) == Weights(set.terminals) + Weights(set.functions)

\* The node values of a sequence of definitions, in order.
RECURSIVE NodeValuesIn(_)
NodeValuesIn(defs) ==
    IF defs = <<>> THEN <<>>
    ELSE [k \in 1..Head(defs).weight |-> Head(defs).nodeValue + k - 1]
             \o NodeValuesIn(Tail(defs))

nodeValueForTypeConstrainedNodeValue(set, value) ==
    (NodeValuesIn(set.terminals) \o NodeValuesIn(set.functions))[value + 1]

(***************************************************************************)
(* TreeGenerator::generate, one call per step.  A call for a function      *)
(* pushes it and leaves the calls for its arguments and the closing pop as *)
(* pending work.                                                           *)
(***************************************************************************)
\* Mutant of atLastLayer: the last layer is taken to be one deeper.
atLayerBelow(maxDepth) == maxDepth <= 0

\* maxDepth <= 1
atLastLayer(maxDepth) == maxDepth <= 1

\* Mutant of drawRange: Full draws like Grow, from the whole range.
drawRangeWhole(strategy, set) == 0..(typeConstrainedFunctionLimit(set) - 1)

\* The type-constrained values the draw is made from: the functions for Full, all
\* for Grow.  random(min, max) with max < min has no defined result.
drawRange(strategy, set) ==
    IF strategy = "Full"
    THEN typeConstrainedTerminalLimit(set)..(typeConstrainedFunctionLimit(set) - 1)
    ELSE 0..(typeConstrainedFunctionLimit(set) - 1)

\* Mutant of ArgumentCalls: the arguments are generated with the maxDepth of the
\* call itself, not one less.
RECURSIVE ArgumentCallsSameDepth(_, _)
ArgumentCallsSameDepth(args, maxDepth) ==
    IF args = <<>> THEN << <<"pop", 0, 0>> >>
    ELSE << <<"generate", maxDepth + 1, Head(args)>> >>
             \o ArgumentCallsSameDepth(Tail(args), maxDepth)

\* The calls a function leaves pending: one per argument, then the pop.
RECURSIVE ArgumentCalls(_, _)
ArgumentCalls(args, maxDepth) ==
    IF args = <<>> THEN << <<"pop", 0, 0>> >>
    ELSE << <<"generate", maxDepth, Head(args)>> >> \o ArgumentCalls(Tail(args), maxDepth)

\* The state after a call: done when no work is left.
Continue(newBuilder, newWork, newMade) ==
    /\ builder' = newBuilder
    /\ work' = newWork
    /\ made' = newMade
    /\ gpc' = IF newWork = <<>> THEN "done" ELSE "run"

\* generate(builder, maxDepth, strategy, type) up to its recursive calls.
Generate ==
    /\ gpc = "run"
    /\ work # <<>> /\ Head(work)[1] = "generate"
    /\ Len(builder.nodes) < MaxGeneratedNodes
    /\ LET maxDepth == Head(work)[2]
           type == Head(work)[3]
           set == definitionSetForType(grammar, type)
           added(value) == add(builder.nodes, builder.stack, value)
           pushed(value) == push(builder.nodes, builder.stack, value)
       IN  IF atLastLayer(maxDepth) /\ hasTerminals(set)
           THEN \E drawn \in 0..(typeConstrainedTerminalLimit(set) - 1) :
                    Continue(added(nodeValueForTypeConstrainedNodeValue(set, drawn)),
                             Tail(work), Append(made, maxDepth))
           ELSE IF drawRange(request.strategy, set) = {}
           THEN /\ gpc' = "undefined"
                /\ \E value \in 0..(getNodeLimit(grammar) - 1) :
                       builder' \in {builder, added(value)}
                /\ UNCHANGED <<work, made>>
           ELSE \E drawn \in drawRange(request.strategy, set) :
                    LET value == nodeValueForTypeConstrainedNodeValue(set, drawn)
                        def == grammar.defs[definitionIdForTreeGenomeValue(grammar, value) + 1]
                    IN  IF def.kind = "terminal"
                        THEN Continue(added(value), Tail(work), Append(made, maxDepth))
                        ELSE Continue(pushed(value),
                                      ArgumentCalls(def.args, maxDepth - 1) \o Tail(work),
                                      Append(made, maxDepth))
    /\ UNCHANGED request

\* builder.pop() at the end of generate for a function.
GeneratePop ==
    /\ gpc = "run"
    /\ work # <<>> /\ Head(work)[1] = "pop"
    /\ Continue(pop(builder.nodes, builder.stack), Tail(work), made)
    /\ UNCHANGED request

\* The grammars generators are made for.  Every type of "typed" has terminals and
\* functions; in "noTerminals" type 1 has only a function, in "noFunctions" only
\* a terminal; in "selfFed" type 1 has only a function of an argument of type 1.
GeneratorGrammars ==
    [typed |-> [types |-> <<0, 1>>,
                definitions |-> << terminal("x", 0, 1), terminal("c", 1, 1),
                                   function("f", 0, <<0>>, 1),
                                   function("g", 0, <<1, 0>>, 1),
                                   function("h", 1, <<0>>, 2) >>],
     noTerminals |-> [types |-> <<0, 1>>,
                      definitions |-> << terminal("x", 0, 1), function("f", 0, <<0>>, 1),
                                         function("h", 1, <<0>>, 1) >>],
     noFunctions |-> [types |-> <<0, 1>>,
                      definitions |-> << terminal("x", 0, 1), terminal("c", 1, 1),
                                         function("g", 0, <<1>>, 1) >>],
     selfFed |-> [types |-> <<0, 1>>,
                  definitions |-> << terminal("x", 0, 1), function("f", 0, <<0>>, 1),
                                     function("h", 1, <<1>>, 1) >>]]

\* TreeGenerator(grammar, rng), then generateFull or generateGrow on a new builder.
InitGen ==
    /\ \E name \in DOMAIN GeneratorGrammars : registered = GeneratorGrammars[name]
    /\ grammar = Grammar(registered.types, registered.definitions)
    /\ lookup = <<>>
    /\ \E strategy \in {"Full", "Grow"} :
       \E maxDepth \in 1..MaxDepth :
       \E type \in {invalidTypeId} \cup {registered.types[k] : k \in 1..Len(registered.types)} :
           request = [strategy |-> strategy, maxDepth |-> maxDepth, type |-> type]
    /\ builder = [nodes |-> <<>>, stack |-> <<>>]
    /\ work = << <<"generate", request.maxDepth, request.type>> >>
    /\ gpc = "run"
    /\ made = <<>>

NextGen ==
    \/ Generate /\ UNCHANGED <<treeVars, grammarVars, popVars, initVars, evalVars, runVars>>
    \/ GeneratePop /\ UNCHANGED <<treeVars, grammarVars, popVars, initVars, evalVars, runVars>>

InitSpecGen == InitGen /\ InitTreeIdle /\ InitPopIdle /\ InitInitIdle /\ InitEvalIdle /\ InitRunsIdle

SpecGen == InitSpecGen /\ [][NextGen]_vars

\* generate runs on: a call that can be made is made.
SpecGenFair == InitSpecGen /\ [][NextGen]_vars /\ WF_vars(NextGen)

(***************************************************************************)
(* Single-precision arithmetic of initialize: round to nearest, ties to    *)
(* even, on 24 significant bits.                                           *)
(***************************************************************************)
RECURSIVE BitLength(_)
BitLength(n) == IF n = 0 THEN 0 ELSE 1 + BitLength(n \div 2)

\* The float nearest to num * 2^e, for an integer num > 0.
RoundFloat(num, e) ==
    LET bits == BitLength(num)
    IN  IF bits <= 24
        THEN [m |-> num * 2 ^ (24 - bits), e |-> e - (24 - bits)]
        ELSE LET s == bits - 24
                 q == num \div 2 ^ s
                 r == num % 2 ^ s
                 half == 2 ^ (s - 1)
                 rounded == IF r > half \/ (r = half /\ q % 2 = 1) THEN q + 1 ELSE q
             IN  IF rounded = 2 ^ 24
                 THEN [m |-> 2 ^ 23, e |-> e + s + 1]
                 ELSE [m |-> rounded, e |-> e + s]

\* The least k with (a * 2^k) \div b >= 2^24.
RECURSIVE QuotientShift(_, _, _)
QuotientShift(a, b, k) ==
    IF (a * 2 ^ k) \div b >= 2 ^ 24 THEN k ELSE QuotientShift(a, b, k + 1)

\* The float nearest to a / b, for integers a, b > 0 with a / b < 2^24.
FloatQuotient(a, b) ==
    LET k == QuotientShift(a, b, 0)
        q == (a * 2 ^ k) \div b
        sticky == (a * 2 ^ k) % b # 0
        kept == q \div 2
        rounded == IF q % 2 = 1 /\ (sticky \/ kept % 2 = 1) THEN kept + 1 ELSE kept
    IN  IF rounded = 2 ^ 24
        THEN [m |-> 2 ^ 23, e |-> 2 - k]
        ELSE [m |-> rounded, e |-> 1 - k]

\* x + y rounded to a float.
FloatAdd(x, y) ==
    LET e == Min(x.e, y.e)
    IN  RoundFloat(x.m * 2 ^ (x.e - e) + y.m * 2 ^ (y.e - e), e)

\* int(floor(x)) for x >= 0.
FloatFloor(x) == IF x.e >= 0 THEN x.m * 2 ^ x.e ELSE x.m \div 2 ^ (0 - x.e)

(***************************************************************************)
(* RampedHalfAndHalfInitializer::initialize.                               *)
(***************************************************************************)
\* float(options.maxTreeGenomeDepth) / (float(size) / 2); size / 2 is exact.
depthDelta(opts) == FloatQuotient(2 * opts.maxTreeGenomeDepth, opts.populationSize)

\* Mutant of halfSize: the first loop takes the odd genome too.
halfSizeUp(size) == (size + 1) \div 2

\* size / 2 in size_t
halfSize(size) == size \div 2

\* The grammar x, f(x) whose trees are chains, and the grammar of
\* testRampedHalfAndHalfInitializer.
InitializerGrammars ==
    [chain |-> [types |-> <<0>>,
                definitions |-> << terminal("x", 0, 1), function("f", 0, <<0>>, 1) >>],
     fixture |-> [types |-> <<0>>,
                  definitions |-> << terminal("x", 0, 10), terminal("y", 0, 10),
                                     function("+", 0, <<0, 0>>, 5),
                                     function("*", 0, <<0, 0>>, 5),
                                     function("rgb", 0, <<0, 0, 0>>, 2) >>]]

\* The root the test's delegate pushes: the last definition of the grammar.
delegateRoot == grammar.defs[Len(grammar.defs)]

\* RampedHalfAndHalfInitializer(grammar, rng, delegate) and the entry of
\* initialize(options, consumer).
InitInitializer ==
    /\ \/ /\ registered = InitializerGrammars.chain
          /\ \E size \in 1..MaxPopulationSize :
             \E maxDepth \in 1..MaxTreeDepth :
                 options = [populationSize |-> size, maxTreeGenomeDepth |-> maxDepth]
          /\ delegate \in {"none", "declines", "root"}
       \/ /\ registered = InitializerGrammars.fixture
          /\ options = [populationSize |-> 2, maxTreeGenomeDepth |-> 1]
          /\ delegate = "root"
    /\ grammar = Grammar(registered.types, registered.definitions)
    /\ lookup = <<>>
    /\ ipc = "full"
    /\ index = 0
    /\ depth = FloatOne
    /\ current = NoGenome
    /\ emitted = <<>>
    /\ InitGenIdle

\* The body of either loop up to the generator's work: currentDepth, a new
\* builder, and the delegate's call or the generator's.
BeginGenome ==
    /\ gpc = "idle"
    /\ \/ ipc = "full" /\ index < halfSize(options.populationSize)
       \/ ipc = "grow" /\ index < options.populationSize
    /\ LET strategy == IF ipc = "full" THEN "Full" ELSE "Grow"
           currentDepth == FloatFloor(depth)
           start == [nodes |-> <<>>, stack |-> <<>>]
       IN  /\ request' = [strategy |-> strategy, maxDepth |-> currentDepth,
                          type |-> invalidTypeId]
           /\ IF delegate = "root"
              THEN /\ builder' = push(start.nodes, start.stack, delegateRoot.nodeValue)
                   /\ work' = [k \in 1..Len(delegateRoot.args) |->
                                  <<"generate", currentDepth, invalidTypeId>>]
                                  \o << <<"pop", 0, 0>> >>
                   /\ made' = <<currentDepth + 1>>
                   /\ current' = [strategy |-> strategy, currentDepth |-> currentDepth,
                                  handled |-> TRUE, default |-> FALSE]
              ELSE /\ builder' = start
                   /\ work' = << <<"generate", currentDepth, invalidTypeId>> >>
                   /\ made' = <<>>
                   /\ current' = [strategy |-> strategy, currentDepth |-> currentDepth,
                                  handled |-> FALSE, default |-> TRUE]
           /\ gpc' = "run"
    /\ UNCHANGED <<options, delegate, ipc, index, depth, emitted>>

\* consumer(std::move(genome)) and the loop's ++i, depth += depthDelta.
Consume ==
    /\ gpc = "done"
    /\ ipc \in {"full", "grow"}
    /\ emitted' = Append(emitted, current)
    /\ index' = index + 1
    /\ depth' = FloatAdd(depth, depthDelta(options))
    /\ current' = NoGenome
    /\ builder' = [nodes |-> <<>>, stack |-> <<>>]
    /\ work' = <<>> /\ made' = <<>> /\ request' = NoRequest
    /\ gpc' = "idle"
    /\ UNCHANGED <<options, delegate, ipc>>

\* The end of the first loop: depth = 1 and the second loop begins.
StartGrow ==
    /\ gpc = "idle"
    /\ ipc = "full" /\ index >= halfSize(options.populationSize)
    /\ ipc' = "grow"
    /\ depth' = FloatOne
    /\ UNCHANGED <<options, delegate, index, current, emitted, genVars>>

\* The end of the second loop: initialize returns.
FinishInitialize ==
    /\ gpc = "idle"
    /\ ipc = "grow" /\ index >= options.populationSize
    /\ ipc' = "done"
    /\ UNCHANGED <<options, delegate, index, depth, current, emitted, genVars>>

NextInitializer ==
    \/ BeginGenome /\ UNCHANGED <<treeVars, grammarVars, popVars, evalVars, runVars>>
    \/ Generate /\ UNCHANGED <<treeVars, grammarVars, popVars, initVars, evalVars, runVars>>
    \/ GeneratePop /\ UNCHANGED <<treeVars, grammarVars, popVars, initVars, evalVars, runVars>>
    \/ Consume /\ UNCHANGED <<treeVars, grammarVars, popVars, evalVars, runVars>>
    \/ StartGrow /\ UNCHANGED <<treeVars, grammarVars, popVars, evalVars, runVars>>
    \/ FinishInitialize /\ UNCHANGED <<treeVars, grammarVars, popVars, evalVars, runVars>>

InitSpecInitializer == InitInitializer /\ InitTreeIdle /\ InitPopIdle /\ InitEvalIdle /\ InitRunsIdle

SpecInitializer == InitSpecInitializer /\ [][NextInitializer]_vars

\* Mutant of nextChild: the iterator steps to the next node, not over the child's
\* subtree.
nextNode(nodes, it) == it + 1

\* Iterator::operator++: nodeId += tree.nodes[nodeId].subTreeSize
nextChild(nodes, it) == it + nodes[it + 1].subTreeSize

\* switch (arguments.size()) of TreeGenomeEvaluator::operator()
callbackFor(size) ==
    IF size = 1 THEN "evaluateUnaryFunction"
    ELSE IF size = 2 THEN "evaluateBinaryFunction"
    ELSE "evaluateFunction"

(***************************************************************************)
(* TreeGenomeEvaluator.  The host's callbacks return a value that tells    *)
(* which call made it: the id of the node they were called for.            *)
(***************************************************************************)
\* The grammar of the evaluated trees: a terminal and functions of one, two and
\* three arguments.
EvaluatorGrammar ==
    [types |-> <<0>>,
     definitions |-> << terminal("x", 0, 2),
                        function("neg", 0, <<0>>, 1),
                        function("+", 0, <<0, 0>>, 1),
                        function("rgb", 0, <<0, 0, 0>>, 1) >>]

\* The number of arguments of the definitions word[first..last] names.
RECURSIVE ArgumentsIn(_, _, _, _)
ArgumentsIn(g, word, first, last) ==
    IF first > last THEN 0
    ELSE Len(g.defs[word[first]].args) + ArgumentsIn(g, word, first + 1, last)

\* word lists the definitions of one tree in preorder: every function has its
\* arguments and nothing follows the root's last argument.
IsTreeWord(g, word) ==
    /\ ArgumentsIn(g, word, 1, Len(word)) = Len(word) - 1
    /\ \A j \in 1..(Len(word) - 1) : ArgumentsIn(g, word, 1, j) >= j

\* The nodes a Builder leaves for the tree of the word.
NodesOfWord(g, word) ==
    [k \in 1..Len(word) |->
        [value |-> g.defs[word[k]].nodeValue,
         childCount |-> Len(g.defs[word[k]].args),
         subTreeSize |-> CHOOSE s \in 1..(Len(word) - k + 1) :
                             /\ ArgumentsIn(g, word, k, k + s - 1) = s - 1
                             /\ \A r \in 1..(s - 1) :
                                    ArgumentsIn(g, word, k, k + r - 1) >= r]]

\* The genomes of at most MaxEvaluatedNodes nodes over the grammar.
EvaluatedGenomes(g) ==
    UNION { { NodesOfWord(g, word) :
                  word \in {w \in [1..n -> 1..Len(g.defs)] : IsTreeWord(g, w)} } :
            n \in 1..MaxEvaluatedNodes }

InitEval ==
    /\ registered = EvaluatorGrammar
    /\ grammar = Grammar(registered.types, registered.definitions)
    /\ lookup = <<>>
    /\ subject \in EvaluatedGenomes(grammar)
    /\ frames = <<>>
    /\ callbacks = <<>>
    /\ epc = "idle"
    /\ returned = -1

\* A call of operator()(node) that has not run yet.
Called(node) == [node |-> node, state |-> "call", it |-> node, arguments |-> <<>>]

\* T operator()(const TreeGenome &tree): (*this)(tree.first()).
EvaluateTree ==
    /\ epc = "idle"
    /\ frames' = << Called(0) >>
    /\ epc' = "run"
    /\ UNCHANGED <<subject, callbacks, returned>>

\* A callback of the host for the node of the innermost call, and the return of
\* its value: to the caller's arguments.push_back and ++it, or out of the
\* evaluator.
Callback(name, definitionId, arguments) ==
    LET top == frames[Len(frames)]
        value == top.node
        rest == SubSeq(frames, 1, Len(frames) - 1)
    IN  /\ callbacks' = Append(callbacks,
                               [callback |-> name, definitionId |-> definitionId,
                                node |-> top.node, arguments |-> arguments])
        /\ IF rest = <<>>
           THEN /\ frames' = <<>>
                /\ returned' = value
                /\ epc' = "done"
           ELSE LET caller == rest[Len(rest)]
                IN  /\ frames' = [rest EXCEPT ![Len(rest)] =
                                     [caller EXCEPT
                                         !.arguments = Append(@, value),
                                         !.it = nextChild(subject, caller.it)]]
                    /\ UNCHANGED <<returned, epc>>

\* operator()(node) up to the loop over the children: the definition, and for a
\* terminal its callback.
EvaluateNode ==
    /\ epc = "run"
    /\ frames[Len(frames)].state = "call"
    /\ LET top == frames[Len(frames)]
           dID == definitionIdForTreeGenomeValue(grammar, subject[top.node + 1].value)
           definition == grammar.defs[dID + 1]
       IN  IF definition.kind = "terminal"
           THEN IF subject[top.node + 1].childCount # 0
                THEN /\ epc' = "aborted"
                     /\ UNCHANGED <<frames, callbacks, returned>>
                ELSE Callback("evaluteTerminal", dID, <<>>)
           ELSE IF subject[top.node + 1].childCount # Len(definition.args)
                THEN /\ epc' = "aborted"
                     /\ UNCHANGED <<frames, callbacks, returned>>
                ELSE /\ frames' = [frames EXCEPT ![Len(frames)] =
                                      [top EXCEPT !.state = "loop", !.it = top.node + 1]]
                     /\ UNCHANGED <<callbacks, returned, epc>>
    /\ UNCHANGED subject

\* One round of for (auto child : node): the call (*this)(child).
EvaluateChild ==
    /\ epc = "run"
    /\ LET top == frames[Len(frames)]
       IN  /\ top.state = "loop"
           /\ top.it # top.node + subject[top.node + 1].subTreeSize
           /\ frames' = Append(frames, Called(top.it))
    /\ UNCHANGED <<subject, callbacks, returned, epc>>

\* The end of the loop: switch (arguments.size()) and the callback.
EvaluateFunction ==
    /\ epc = "run"
    /\ LET top == frames[Len(frames)]
           dID == definitionIdForTreeGenomeValue(grammar, subject[top.node + 1].value)
       IN  /\ top.state = "loop"
           /\ top.it = top.node + subject[top.node + 1].subTreeSize
           /\ Callback(callbackFor(Len(top.arguments)), dID, top.arguments)
    /\ UNCHANGED subject

NextEval ==
    \/ EvaluateTree /\ UNCHANGED <<treeVars, grammarVars, popVars, genVars, initVars, runVars>>
    \/ EvaluateNode /\ UNCHANGED <<treeVars, grammarVars, popVars, genVars, initVars, runVars>>
    \/ EvaluateChild /\ UNCHANGED <<treeVars, grammarVars, popVars, genVars, initVars, runVars>>
    \/ EvaluateFunction /\ UNCHANGED <<treeVars, grammarVars, popVars, genVars, initVars, runVars>>

InitSpecEval ==
    InitEval /\ InitTreeIdle /\ InitPopIdle /\ InitGenIdle /\ InitInitIdle /\ InitRunsIdle

SpecEval == InitSpecEval /\ [][NextEval]_vars

(***************************************************************************)
(* Two runs of the population side by side.  The run whose turn it is     *)
(* holds the population variables and the other one waits in twin; the    *)
(* first takes a step of Population with fresh draws, then the other is   *)
(* brought in and takes the same step with the same draws.  hostFitness   *)
(* and the grammar are the same for both.                                  *)
(***************************************************************************)
PopState ==
    [individuals |-> individuals, fitnesses |-> fitnesses, generation |-> generation,
     evaluatedGeneration |-> evaluatedGeneration,
     currentBestIndividualId |-> currentBestIndividualId, ppc |-> ppc,
     newGeneration |-> newGeneration, bestIndividual |-> bestIndividual,
     count |-> count, loopIndex |-> loopIndex, obs |-> obs]

\* The smallest population nextGeneration accepts: two elites, the
\* individuals.size() - 3 >= 1 winners of select and the third elite.
SmallestPopulation == 4

\* Both runs start from the same initialized population, as after
\* Population(size, params, delegate) and one initialize.
InitRuns ==
    /\ fitnesses = [k \in 1..SmallestPopulation |-> 0]
    /\ individuals \in [1..SmallestPopulation -> InitialGenomes]
    /\ hostFitness \in HostFitnesses
    /\ generation = 0
    /\ evaluatedGeneration = -1
    /\ currentBestIndividualId = 0
    /\ ppc = "idle"
    /\ newGeneration = <<>> /\ bestIndividual = 0 /\ count = 0 /\ loopIndex = 0
    /\ obs = NoObs
    /\ twin = PopState
    /\ turn = "first"
    /\ lastDraw = NoDraw

\* A step of the run whose turn it is: the first run draws, the second is given
\* what the first drew.
TakeStep(name, drawn, step) ==
    \/ /\ turn = "first"
       /\ step
       /\ lastDraw' = [action |-> name, draw |-> drawn]
       /\ turn' = "swap"
       /\ UNCHANGED twin
    \/ /\ turn = "second"
       /\ lastDraw.action = name /\ lastDraw.draw = drawn
       /\ step
       /\ turn' = "first"
       /\ lastDraw' = NoDraw
       /\ UNCHANGED twin

\* The other run is brought in.
Exchange ==
    /\ turn = "swap"
    /\ individuals' = twin.individuals
    /\ fitnesses' = twin.fitnesses
    /\ generation' = twin.generation
    /\ evaluatedGeneration' = twin.evaluatedGeneration
    /\ currentBestIndividualId' = twin.currentBestIndividualId
    /\ ppc' = twin.ppc
    /\ newGeneration' = twin.newGeneration
    /\ bestIndividual' = twin.bestIndividual
    /\ count' = twin.count
    /\ loopIndex' = twin.loopIndex
    /\ obs' = twin.obs
    /\ twin' = PopState
    /\ turn' = "second"
    /\ UNCHANGED <<hostFitness, lastDraw>>

RunEvaluateGeneration == TakeStep("evaluateGeneration", <<>>, EvaluateGeneration)
RunNextGenerationBegin == TakeStep("nextGeneration", <<>>, NextGenerationBegin)
RunSelectStep == \E s \in SelectDraws : TakeStep("select", s, SelectStepWith(s))
RunReproduce == TakeStep("reproduce", <<>>, Reproduce)
RunMutate ==
    \E drawn \in MutateDraws : TakeStep("mutate", drawn, MutateWith(drawn[1], drawn[2]))
RunCrossover ==
    \E drawn \in CrossoverDraws :
        TakeStep("crossover", drawn, CrossoverWith(drawn[1], drawn[2], drawn[3]))
RunNextGenerationEnd == TakeStep("finish", <<>>, NextGenerationEnd)

NextRuns ==
    \/ RunEvaluateGeneration
           /\ UNCHANGED <<treeVars, grammarVars, genVars, initVars, evalVars>>
    \/ RunNextGenerationBegin
           /\ UNCHANGED <<treeVars, grammarVars, genVars, initVars, evalVars>>
    \/ RunSelectStep /\ UNCHANGED <<treeVars, grammarVars, genVars, initVars, evalVars>>
    \/ RunReproduce /\ UNCHANGED <<treeVars, grammarVars, genVars, initVars, evalVars>>
    \/ RunMutate /\ UNCHANGED <<treeVars, grammarVars, genVars, initVars, evalVars>>
    \/ RunCrossover /\ UNCHANGED <<treeVars, grammarVars, genVars, initVars, evalVars>>
    \/ RunNextGenerationEnd
           /\ UNCHANGED <<treeVars, grammarVars, genVars, initVars, evalVars>>
    \/ Exchange /\ UNCHANGED <<treeVars, grammarVars, genVars, initVars, evalVars>>

InitSpecRuns ==
    /\ InitRuns
    /\ grammar = PopGrammar /\ lookup = <<>> /\ registered = NoGrammar
    /\ InitTreeIdle
    /\ InitGenIdle
    /\ InitInitIdle
    /\ InitEvalIdle

SpecRuns == InitSpecRuns /\ [][NextRuns]_vars

(***************************************************************************)
(* select as nextGeneration calls it, with the three samples of every      *)
(* tournament kept in lastDraw.  The population has been constructed with  *)
(* its size and initialized once; its genomes include two of the same      *)
(* number of nodes, which the host's fitness does not tell apart.          *)
(***************************************************************************)
SelectGenomes == <<TreeFX, TreeGC, TreeX>>

\* The genomes the initializer emitted: the three kinds in turn, from any of them.
SelectPopulation(size, shift) ==
    [k \in 1..size |-> SelectGenomes[((k + shift) % Len(SelectGenomes)) + 1]]

InitSelect ==
    /\ \E size \in SmallestPopulation..MaxSelectSize :
           /\ fitnesses = [k \in 1..size |-> 0]
           /\ \E shift \in 1..Len(SelectGenomes) :
                  individuals = SelectPopulation(size, shift)
    /\ hostFitness \in HostFitnesses
    /\ generation = 0
    /\ evaluatedGeneration = -1
    /\ currentBestIndividualId = 0
    /\ ppc = "idle"
    /\ newGeneration = <<>> /\ bestIndividual = 0 /\ count = 0 /\ loopIndex = 0
    /\ obs = NoObs
    /\ InitRunsIdle

\* nextGeneration up to the call of select.
SelectBegin ==
    /\ NextGenerationBegin
    /\ UNCHANGED runVars

\* One iteration of the loop of select and its three samples.
SelectSampled ==
    \E s \in SelectDraws :
        /\ SelectStepWith(s)
        /\ lastDraw' = [action |-> "select", draw |-> s]
        /\ UNCHANGED <<twin, turn>>

NextSelect ==
    \/ SelectBegin /\ UNCHANGED <<treeVars, grammarVars, genVars, initVars, evalVars>>
    \/ SelectSampled /\ UNCHANGED <<treeVars, grammarVars, genVars, initVars, evalVars>>

InitSpecSelect ==
    /\ InitSelect
    /\ grammar = PopGrammar /\ lookup = <<>> /\ registered = NoGrammar
    /\ InitTreeIdle
    /\ InitGenIdle
    /\ InitInitIdle
    /\ InitEvalIdle

SpecSelect == InitSpecSelect /\ [][NextSelect]_vars

(***************************************************************************)
(* Properties of the tree.                                                 *)
(***************************************************************************)
\* The ids of the direct children of a node, as Node::begin and Iterator::operator++
\* find them: the first at nodeId + 1, each next one subTreeSize further, childCount
\* of them.  An id past the end of the array ends the sequence with -1.
RECURSIVE ChildIds(_, _, _)
ChildIds(nodes, next, remaining) ==
    IF remaining = 0 THEN <<>>
    ELSE IF next >= Len(nodes) THEN <<-1>>
    ELSE <<next>> \o ChildIds(nodes, next + nodes[next + 1].subTreeSize, remaining - 1)

RECURSIVE SumSizes(_, _)
SumSizes(nodes, ids) ==
    IF ids = <<>> THEN 0
    ELSE nodes[Head(ids) + 1].subTreeSize + SumSizes(nodes, Tail(ids))

\* subTreeSize[i] = 1 + the sum of subTreeSize over the direct children of i.
SizedAt(nodes, i) ==
    LET ids == ChildIds(nodes, i + 1, nodes[i + 1].childCount)
    IN  /\ \A k \in 1..Len(ids) : ids[k] # -1
        /\ nodes[i + 1].subTreeSize = 1 + SumSizes(nodes, ids)

\* The invariant of the spec's data model, for a tree with at least one node.
TreeInvariant(nodes) ==
    /\ Len(nodes) > 0
    /\ nodes[1].subTreeSize = Len(nodes)
    /\ \A i \in 0..(Len(nodes) - 1) : SizedAt(nodes, i)

ValuesOf(nodes) == [k \in 1..Len(nodes) |-> nodes[k].value]
ChildCountsOf(nodes) == [k \in 1..Len(nodes) |-> nodes[k].childCount]

\* The number of nodes the Builder appended while its stack was empty.
Roots(h) == Cardinality({k \in 1..Len(h.parents) : h.parents[k] = -1})

IsReplaceStep == lastOp'[1] = "replace" /\ lastOp'[2] < Len(tree.genome)
IsGetSubTreeStep == lastOp'[1] = "getSubTree"

\* C1 as stated: after every Builder sequence whose pushes are all popped, and after
\* every replace, subTreeSize[0] is the node count and every node's subTreeSize is
\* 1 + the sum over its direct children.
C1_AsStated ==
    (pc = "run" /\ stack = <<>>)
        => \A t \in TreeNames : tree[t] # <<>> => TreeInvariant(tree[t])

\* C1 amended: after a Builder sequence whose pushes are all popped and that appended
\* exactly one node while its stack was empty (a single root), and after
\* replace(i, sub) on a tree that satisfies the invariant with a valid i and a sub
\* that satisfies it (non-empty, single root), replace completes, subTreeSize[0] is
\* the node count and every node's subTreeSize is 1 + the sum over its children.
C1_SubTreeSizes ==
    [][ /\ (hist'.pure /\ stack' = <<>> /\ Roots(hist') = 1)
            => TreeInvariant(tree'[target'])
        /\ (IsReplaceStep /\ TreeInvariant(tree.genome) /\ TreeInvariant(tree.subTree))
            => (pc' = "run" /\ TreeInvariant(tree'.genome)) ]_vars

C1_Witness ==
    /\ pc = "run" /\ lastOp[1] = "replace" /\ lastOp[2] >= 2
    /\ Len(tree.subTree) >= 2
    /\ TreeInvariant(tree.genome)
    /\ tree.genome[2].subTreeSize = Len(tree.genome) - 1

\* C2: s = getSubTree(i) followed by replace(i, s) leaves the tree as it was: the
\* same value, childCount and subTreeSize at every index (and replace completes
\* when the tree satisfies its invariant).
C2_RoundTrip ==
    [][ (lastOp'[1] = "replace" /\ lastOp = <<"getSubTree", lastOp'[2], FALSE>>)
            => /\ tree'.genome = tree.genome
               /\ TreeInvariant(tree.genome) => pc' = "run" ]_vars

C2_Witness ==
    /\ lastOp[1] = "replace" /\ lastOp[3] /\ lastOp[2] >= 1
    /\ tree.genome[lastOp[2] + 1].childCount >= 1
    /\ Len(tree.genome) >= lastOp[2] + 3

\* C3: replace(i, sub) yields the node sequence nodes[0..i) ++ sub.nodes ++
\* nodes[i + subTreeSize[i] ..): the count is old count - subTreeSize[i] + |sub|,
\* and the childCount of every node outside the replaced subtree is unchanged.
\* testGenome's literal results are part of the statement.
C3_Splice ==
    [][ /\ (IsReplaceStep /\ pc' # "undefined")
            => LET i == lastOp'[2]
                   old == tree.genome
                   sub == tree.subTree
                   size == old[i + 1].subTreeSize
                   new == tree'.genome
               IN  /\ ValuesOf(new) = SubSeq(ValuesOf(old), 1, i) \o ValuesOf(sub)
                                        \o SubSeq(ValuesOf(old), i + size + 1, Len(old))
                   /\ Len(new) = Len(old) - size + Len(sub)
                   /\ \A k \in 1..i : new[k].childCount = old[k].childCount
                   /\ \A k \in (i + size + 1)..Len(old) :
                          new[k - size + Len(sub)].childCount = old[k].childCount
                   /\ \A k \in 1..Len(sub) : new[i + k].childCount = sub[k].childCount
        /\ (scenario = "testGenome" /\ Len(script') = 2)
            => ValuesOf(tree'.subTree) = <<Plus, One, One>>
        /\ (scenario = "testGenome" /\ Len(script') = 1)
            => /\ ValuesOf(tree'.genome) = <<Plus, Plus, One, One, Plus, One, One>>
               /\ ChildCountsOf(tree'.genome) = <<2, 2, 0, 0, 2, 0, 0>>
        /\ (scenario = "testGenome" /\ Len(script') = 0)
            => ValuesOf(tree'.genome) = <<Plus, One, One>> ]_vars

C3_Witness ==
    /\ scenario = "free" /\ pc = "run" /\ lastOp[1] = "replace" /\ lastOp[2] = 1
    /\ Len(tree.subTree) = 2 /\ Len(tree.genome) = 4
    /\ tree.genome[1].childCount = 2

\* C4: getSubTree(i) returns the slice nodes[i .. i + subTreeSize[i]) and leaves the
\* source tree unchanged; a replace on the source tree, with the copy as its
\* argument or not, does not change the copy.
C4_IndependentCopy ==
    [][ /\ (IsGetSubTreeStep /\ pc' = "run")
            => LET i == lastOp'[2]
               IN  /\ tree'.subTree
                        = SubSeq(tree.genome, i + 1, i + tree.genome[i + 1].subTreeSize)
                   /\ tree'.genome = tree.genome
        /\ lastOp'[1] = "replace" => tree'.subTree = tree.subTree ]_vars

C4_Witness ==
    /\ pc = "run" /\ lastOp[1] = "replace" /\ ~lastOp[3]
    /\ Len(tree.subTree) >= 2
    /\ tree.genome # tree.subTree
    /\ Len(tree.genome) > Len(tree.subTree)

\* The nodes below p in the tree the Builder calls describe (p and k are positions).
RECURSIVE IsBelow(_, _, _)
IsBelow(h, k, p) ==
    IF k = p THEN TRUE
    ELSE IF h.parents[k] = -1 THEN FALSE
    ELSE IsBelow(h, h.parents[k] + 1, p)

\* C5: for a Builder sequence, the node array is the preorder layout of the tree
\* built: the values are in call order of push/add, childCount[p] is the number of
\* push/add calls made while p was the stack top, and once p is popped subTreeSize[p]
\* is the number of nodes appended from p's push up to that pop, those nodes being
\* the ones below p.  The eleven-call example gives 8 nodes, root childCount 3 and
\* sizes 8, 5 and 2 for the nodes 2, 42 and 9.
C5_BuilderPreorder ==
    hist.pure =>
      LET nodes == tree[target]
      IN  /\ ValuesOf(nodes) = hist.values
          /\ \A p \in 1..Len(nodes) :
                /\ nodes[p].childCount
                     = Cardinality({k \in 1..Len(nodes) : hist.parents[k] = p - 1})
                /\ hist.closed[p] # 0 =>
                     /\ nodes[p].subTreeSize = hist.closed[p] - (p - 1)
                     /\ {k \in 1..Len(nodes) : IsBelow(hist, k, p)}
                          = p..(p + nodes[p].subTreeSize - 1)
          /\ (scenario = "testTreeIteration" /\ script = <<>>) =>
                /\ ValuesOf(nodes) = <<2, 11, 42, 13, 0, 9, 7, 90>>
                /\ nodes[1].childCount = 3
                /\ nodes[1].subTreeSize = 8
                /\ nodes[3].subTreeSize = 5
                /\ nodes[6].subTreeSize = 2

C5_Witness ==
    /\ scenario = "free" /\ hist.pure /\ stack = <<>> /\ target = "genome"
    /\ Len(tree.genome) = 3
    /\ tree.genome[1].subTreeSize = 3
    /\ tree.genome[2].subTreeSize = 2

(***************************************************************************)
(* Properties of the grammar.                                              *)
(***************************************************************************)
\* C10: for every definition d and every value v with d.nodeValue <= v <
\* d.nodeValue + d.weight, definitionIdForTreeGenomeValue(v) is d's id, the largest id
\* whose node value is <= v; the ranges of the definitions are disjoint and cover
\* [0, nodeLimit).
C10_Resolution ==
    /\ lookup # <<>> =>
         /\ lookup[2] \in 0..(Len(grammar.defs) - 1)
         /\ LET d == grammar.defs[lookup[2] + 1]
            IN  /\ d.definitionId = lookup[2]
                /\ d.nodeValue <= lookup[1] /\ lookup[1] < d.nodeValue + d.weight
         /\ \A k \in 1..Len(grammar.defs) :
                grammar.defs[k].nodeValue <= lookup[1] => k - 1 <= lookup[2]
    /\ \A v \in 0..(getNodeLimit(grammar) - 1) :
         Cardinality({k \in 1..Len(grammar.defs) :
                        /\ grammar.defs[k].nodeValue <= v
                        /\ v < grammar.defs[k].nodeValue + grammar.defs[k].weight}) = 1

C10_Witness ==
    /\ Len(grammar.defs) = 3
    /\ grammar.defs[2].weight = 2
    /\ lookup = <<grammar.defs[2].nodeValue + 1, 1>>

\* A definition of the grammar as it was registered: without its id and node value.
AsRegistered(d) ==
    [name |-> d.name, kind |-> d.kind, type |-> d.type, weight |-> d.weight,
     args |-> d.args]

\* The position of a definition's bucket in the canonical layout: the terminals
\* of the types in registration order, then the functions of the types likewise.
BucketRank(types, d) ==
    (IF d.kind = "terminal" THEN 0 ELSE Len(types))
        + (CHOOSE k \in 1..Len(types) : types[k] = d.type)

NamesOf(defs) == [k \in 1..Len(defs) |-> defs[k].name]
NodeValuesOf(defs) == [k \in 1..Len(defs) |-> defs[k].nodeValue]

\* C11: the grammar holds the registered definitions, the one at position k with
\* definition id k; their buckets follow the canonical layout (terminals type by
\* type in type registration order, then functions likewise) and inside each
\* (type, kind) bucket the order of registration is kept.  The typed fixture comes
\* out as x, y, randomColor, orange, +, *, sin, cos, rgb, darker, lighter, grayscale.
C11_CanonicalLayout ==
    LET defs == grammar.defs
        given == registered.definitions
        types == registered.types
        plain == [k \in 1..Len(defs) |-> AsRegistered(defs[k])]
    IN  /\ Len(defs) = Len(given)
        /\ \A k \in 1..Len(defs) : defs[k].definitionId = k - 1
        /\ \A a, b \in 1..Len(defs) :
               a < b => BucketRank(types, defs[a]) <= BucketRank(types, defs[b])
        /\ \A kind \in {"terminal", "function"} :
           \A n \in 1..Len(types) :
               SelectSeq(plain, LAMBDA d : d.kind = kind /\ d.type = types[n])
                   = SelectSeq(given, LAMBDA d : d.kind = kind /\ d.type = types[n])
        /\ registered = testTreeGenomeTypedGrammar
               => NamesOf(defs) = <<"x", "y", "randomColor", "orange", "+", "*", "sin",
                                    "cos", "rgb", "darker", "lighter", "grayscale">>

\* The typed fixture, whose registration order differs from the canonical one,
\* constructed and in use.
C11_Witness ==
    /\ registered = testTreeGenomeTypedGrammar
    /\ grammar.defs[2].name = "y" /\ registered.definitions[2].name = "randomColor"
    /\ lookup # <<>> /\ grammar.defs[lookup[2] + 1].name = "grayscale"

\* C12: node values are the running sum of the weights along the canonical order,
\* from 0; terminalLimit counts the values of the terminals, functionLimit those of
\* the functions, nodeLimit is their sum and the end of the last definition's
\* range.  The fixture has x:0, y:10, +:20, *:25, sin:36 and limits 20, 19, 39.
C12_PrefixSums ==
    LET defs == grammar.defs
        values == 0..(getNodeLimit(grammar) - 1)
        kindOf(v) == defs[definitionIdForTreeGenomeValue(grammar, v) + 1].kind
    IN  /\ defs # <<>> => defs[1].nodeValue = 0
        /\ \A k \in 1..(Len(defs) - 1) :
               defs[k + 1].nodeValue = defs[k].nodeValue + defs[k].weight
        /\ defs # <<>> =>
               getNodeLimit(grammar) = defs[Len(defs)].nodeValue + defs[Len(defs)].weight
        /\ getTerminalLimit(grammar) = Cardinality({v \in values : kindOf(v) = "terminal"})
        /\ getFunctionLimit(grammar) = Cardinality({v \in values : kindOf(v) = "function"})
        /\ getNodeLimit(grammar) = getTerminalLimit(grammar) + getFunctionLimit(grammar)
        /\ registered = testTreeGenomeGrammar
               => /\ NamesOf(defs) = <<"x", "y", "+", "*", "sin">>
                  /\ NodeValuesOf(defs) = <<0, 10, 20, 25, 36>>
                  /\ getTerminalLimit(grammar) = 20
                  /\ getFunctionLimit(grammar) = 19
                  /\ getNodeLimit(grammar) = 39

\* The fixture constructed, and the last value of * resolved.
C12_Witness ==
    /\ registered = testTreeGenomeGrammar
    /\ lookup = <<35, 3>>


(***************************************************************************)
(* Properties of the population.                                           *)
(***************************************************************************)
Stopped == ppc \in {"aborted", "undefined"}

\* The fitness the host gives individual k (0-based) of those currently held.
FitnessOf(k) == computeFitnessForIndividual(hostFitness, individuals[k + 1])

\* b is the lowest index of an individual of the highest fitness.
IsLowestArgmax(b) ==
    /\ b \in 0..(Len(individuals) - 1)
    /\ \A k \in 0..(Len(individuals) - 1) : FitnessOf(b) >= FitnessOf(k)
    /\ \A k \in 0..(b - 1) : FitnessOf(k) < FitnessOf(b)

C7_Elitism ==
    [][(ppc = "finish" /\ ppc' = "idle")
            => /\ bestIndividual = obs.returned
               /\ \E k \in 1..Len(individuals') :
                      individuals'[k] = individuals[bestIndividual + 1]]_vars

\* A generation whose two working copies of the elite were both changed and whose
\* last walked index was crossed over with a partner drawn at random.
C7_Witness ==
    /\ ppc = "idle" /\ generation >= 1 /\ obs.call = "nextGeneration"
    /\ obs.vary = "lastRandom"
    /\ individuals[1] # individuals[Len(individuals)]
    /\ individuals[2] # individuals[Len(individuals)]

\* C8: while generation holds one value the host's computeFitness is called at most
\* once; an evaluateGeneration, called by the host or by nextGeneration, in a
\* generation already evaluated leaves the fitnesses alone, does not call the host
\* and returns the cached index.
C8_Memoized ==
    [][/\ obs'.computeCalls <= 1
       /\ (ppc = "idle" /\ individuals' = individuals /\ obs' # obs
              /\ evaluatedGeneration = generation)
            => /\ fitnesses' = fitnesses
               /\ obs'.computeCalls = obs.computeCalls
               /\ obs'.returned = currentBestIndividualId]_vars

\* Two calls of evaluateGeneration and then nextGeneration in one generation, with
\* one call of the host.
C8_Witness ==
    /\ ppc = "select" /\ obs.call = "nextGeneration"
    /\ obs.requests = 3 /\ obs.computeCalls = 1

\* C9 as stated: after any sequence of calls the index evaluateGeneration returned
\* is the lowest argmax of the host's fitness over the individuals currently held.
C9_AsStated ==
    (obs.call = "evaluate" /\ ppc = "idle") => IsLowestArgmax(obs.returned)

\* C9: unless initialize was called after the fitnesses of the current generation
\* were computed, the index evaluateGeneration returned, to the host or to
\* nextGeneration, is the lowest argmax of the host's fitness over the individuals
\* currently held.
C9_Argmax ==
    /\ (obs.call = "evaluate" /\ ppc = "idle" /\ ~obs.initSinceCompute)
           => IsLowestArgmax(obs.returned)
    /\ (ppc \in {"select", "vary", "finish"} /\ ~obs.initSinceCompute)
           => IsLowestArgmax(bestIndividual)

\* An evaluation after nextGeneration whose best individual is not the first and
\* has an equal after it.
C9_Witness ==
    /\ obs.call = "evaluate" /\ ppc = "idle" /\ generation >= 1
    /\ ~obs.initSinceCompute
    /\ obs.returned = 1
    /\ Len(individuals) >= 3 /\ FitnessOf(2) = FitnessOf(1)


(***************************************************************************)
(* Properties of the generator.                                            *)
(***************************************************************************)
\* The depth of the node at position k of a finished tree, the root at depth 1:
\* one more than the number of earlier nodes whose subtree holds it.
DepthIn(nodes, k) ==
    1 + Cardinality({j \in 1..(k - 1) : k <= j + nodes[j].subTreeSize - 1})

DefinitionOf(value) == grammar.defs[definitionIdForTreeGenomeValue(grammar, value) + 1]

EveryTypeHasTerminals ==
    \A n \in 1..Len(grammar.types) :
        hasTerminals(definitionSetForType(grammar, grammar.types[n]))

EveryTypeHasFunctions ==
    \A n \in 1..Len(grammar.types) :
        hasFunctions(definitionSetForType(grammar, grammar.types[n]))

\* The builder holds one tree of the requested type whose functions have their
\* arguments.
WellFormed ==
    /\ TreeInvariant(builder.nodes)
    /\ builder.stack = <<>>
    /\ request.type # invalidTypeId
           => DefinitionOf(builder.nodes[1].value).type = request.type
    /\ \A k \in 1..Len(builder.nodes) :
           builder.nodes[k].childCount = Len(DefinitionOf(builder.nodes[k].value).args)

\* Every branch reaches exactly maxDepth: the terminals are the nodes at depth
\* maxDepth, every node above is a function.
FullShape ==
    /\ WellFormed
    /\ \A k \in 1..Len(builder.nodes) :
           LET nodeDepth == DepthIn(builder.nodes, k)
               def == DefinitionOf(builder.nodes[k].value)
           IN  /\ nodeDepth <= request.maxDepth
               /\ def.kind = "terminal" <=> nodeDepth = request.maxDepth

\* No branch is deeper than maxDepth; a node made with remaining nodeDepth 1 is a
\* terminal and a terminal ends its branch.
GrowShape ==
    /\ WellFormed
    /\ \A k \in 1..Len(builder.nodes) :
           LET nodeDepth == DepthIn(builder.nodes, k)
               def == DefinitionOf(builder.nodes[k].value)
           IN  /\ nodeDepth <= request.maxDepth
               /\ made[k] = request.maxDepth - nodeDepth + 1
               /\ made[k] = 1 => def.kind = "terminal"
               /\ def.kind = "terminal" => builder.nodes[k].childCount = 0

WithinHalf(n) ==
    IF n - 1 < options.populationSize \div 2
    THEN n - 1
    ELSE n - 1 - options.populationSize \div 2

\* C15: initialize hands the consumer exactly populationSize genomes, one per
\* call; those with index i < floor(N/2) come from the Full strategy and the rest
\* from the Grow strategy, through the delegate when it returns true and the
\* default generator otherwise, never both.
C15_RampedHalves ==
    /\ Len(emitted) = index
    /\ index <= options.populationSize
    /\ ipc = "done" => Len(emitted) = options.populationSize
    /\ \A n \in 1..Len(emitted) :
           /\ emitted[n].strategy =
                  IF n - 1 < options.populationSize \div 2 THEN "Full" ELSE "Grow"
           /\ emitted[n].handled = (delegate = "root")
           /\ emitted[n].default = ~emitted[n].handled
    /\ gpc = "done"
           => /\ TreeInvariant(builder.nodes)
              /\ builder.stack = <<>>
              /\ current.strategy = request.strategy
              /\ current.handled
                     => /\ ~current.default
                        /\ builder.nodes[1].value = delegateRoot.nodeValue
                        /\ builder.nodes[1].childCount = Len(delegateRoot.args)
              /\ current.default
                     => /\ ~current.handled
                        /\ made[1] = current.currentDepth

\* initialize has returned for an odd population whose delegate made every
\* genome: two Full genomes, three Grow genomes.
C15_Witness ==
    /\ ipc = "done"
    /\ options.populationSize = 5
    /\ delegate = "root"
    /\ Len(emitted) = 5
    /\ emitted[2].strategy = "Full" /\ emitted[3].strategy = "Grow"

\* C16 as stated: the target depth of the genome with within-half index k is
\* floor(1 + (D / (N/2)) * k), restarting at 1 in the Grow half; it lies in
\* [1, D] and does not decrease within a half.
C16_AsStated ==
    \A n \in 1..Len(emitted) :
        LET size == options.populationSize
            maxDepth == options.maxTreeGenomeDepth
        IN  /\ emitted[n].currentDepth = (size + 2 * maxDepth * WithinHalf(n)) \div size
            /\ emitted[n].currentDepth \in 1..maxDepth
            /\ (n > 1 /\ WithinHalf(n) > 0)
                   => emitted[n - 1].currentDepth <= emitted[n].currentDepth


(***************************************************************************)
(* Properties of the evaluator.  Node ids count from 0.                    *)
(***************************************************************************)
\* b is a node below a.
Below(nodes, a, b) == a < b /\ b <= a + nodes[a + 1].subTreeSize - 1

\* The children of k, left to right.
ChildrenOf(nodes, k) ==
    LET kids == {c \in 0..(Len(nodes) - 1) :
                    /\ Below(nodes, k, c)
                    /\ ~\E b \in 0..(Len(nodes) - 1) : Below(nodes, k, b) /\ Below(nodes, b, c)}
    IN  CHOOSE s \in [1..Cardinality(kids) -> kids] :
            \A i, j \in 1..Cardinality(kids) : i < j => s[i] < s[j]

\* C17: the evaluator visits the tree in post-order: every node gets one callback,
\* after the callbacks of all the nodes below it and of every node to its left;
\* the callback is evaluteTerminal for a terminal, evaluateUnaryFunction for one
\* argument, evaluateBinaryFunction for two and evaluateFunction for three or
\* more, and it is given the children's values in child order.
C17_PostOrder ==
    /\ epc # "aborted"
    /\ \A p, q \in 1..Len(callbacks) : p # q => callbacks[p].node # callbacks[q].node
    /\ epc = "done" => (Len(callbacks) = Len(subject) /\ returned = 0)
    /\ \A p \in 1..Len(callbacks) :
           LET call == callbacks[p]
               k == call.node
               definition == DefinitionOf(subject[k + 1].value)
           IN  /\ \A c \in 0..(Len(subject) - 1) :
                      Below(subject, k, c) => \E q \in 1..(p - 1) : callbacks[q].node = c
               /\ \A q \in 1..(p - 1) :
                      LET b == callbacks[q].node
                      IN  Below(subject, k, b) \/ (b < k /\ ~Below(subject, b, k))
               /\ call.definitionId = definition.definitionId
               /\ call.callback =
                      IF definition.kind = "terminal" THEN "evaluteTerminal"
                      ELSE IF Len(definition.args) = 1 THEN "evaluateUnaryFunction"
                      ELSE IF Len(definition.args) = 2 THEN "evaluateBinaryFunction"
                      ELSE "evaluateFunction"
               /\ call.arguments = ChildrenOf(subject, k)

\* The evaluation of rgb(neg(x), +(x, x), x) is done: the last callback is
\* evaluateFunction with the values of the three children in order.
C17_Witness ==
    /\ epc = "done"
    /\ Len(subject) = 7
    /\ callbacks[7] = [callback |-> "evaluateFunction", definitionId |-> 3, node |-> 0,
                       arguments |-> <<1, 3, 6>>]
    /\ callbacks[2].callback = "evaluateUnaryFunction"
    /\ callbacks[5] = [callback |-> "evaluateBinaryFunction", definitionId |-> 2,
                       node |-> 3, arguments |-> <<4, 5>>]


C19_FailedCrossover ==
    (turn = "swap" /\ lastDraw.action = "crossover")
        => LET i == twin.loopIndex
               next == IF lastDraw.draw[1] = i THEN i - 1 ELSE lastDraw.draw[1]
               A == twin.newGeneration[i + 1]
               B == twin.newGeneration[next + 1]
               type == getType(grammar, A[lastDraw.draw[2] + 1].value)
           IN  (\A n \in 1..Len(B) : getType(grammar, B[n].value) # type)
                   => /\ obs.vary = "failed"
                      /\ newGeneration = twin.newGeneration
                      /\ individuals = twin.individuals
                      /\ loopIndex = i + 2
                      /\ ppc = IF i + 2 < Len(newGeneration) THEN "vary" ELSE "finish"

\* A crossover of the second elite g(c) at c with the partner x, the winner of
\* the tournament, has failed; the pair was the last of the loop, which goes on to
\* the end of nextGeneration.
C19_Witness ==
    /\ turn = "swap" /\ lastDraw.action = "crossover"
    /\ twin.newGeneration[twin.loopIndex + 1] = TreeGC
    /\ lastDraw.draw[2] = 1
    /\ twin.newGeneration[lastDraw.draw[1] + 1] = TreeX
    /\ obs.vary = "failed"
    /\ newGeneration = twin.newGeneration
    /\ twin.ppc = "vary"
    /\ ppc = "finish"


\* C23: in the variation loop over newGeneration (of length len) the index i
\* advances by 1 after a mutation or a reproduction and by 2 after a crossover
\* attempt; the partner of i is i + 1 when i + 1 < len, otherwise a draw from
\* 0..len-1 replaced by i - 1 when it equals i; it lies in 0..len-1, differs from i,
\* and no genome but those at i and at the partner is changed.  twin is the run
\* before the step.
C23_Walk ==
    (turn = "swap" /\ lastDraw.action \in {"reproduce", "mutate", "crossover"})
        => LET i == twin.loopIndex
               len == Len(twin.newGeneration)
           IN  /\ Len(newGeneration) = len
               /\ lastDraw.action \in {"reproduce", "mutate"} => loopIndex = i + 1
               /\ lastDraw.action = "crossover"
                      => LET sample == lastDraw.draw[1]
                             partner == partnerIndex(sample, i)
                         IN  /\ loopIndex = i + 2
                             /\ IF i + 1 < len THEN sample = i + 1
                                ELSE sample \in 0..(len - 1)
                             /\ partner \in 0..(len - 1)
                             /\ partner # i
                             /\ \A k \in (0..(len - 1)) \ {i, partner} :
                                    newGeneration[k + 1] = twin.newGeneration[k + 1]

\* The last index was reached in two single steps and crossed over with success;
\* the partner drawn was the index itself, so the one before it was taken.
C23_Witness ==
    /\ turn = "swap" /\ lastDraw.action = "crossover"
    /\ twin.loopIndex = Len(twin.newGeneration) - 1
    /\ twin.loopIndex = 2
    /\ lastDraw.draw[1] = twin.loopIndex
    /\ loopIndex = twin.loopIndex + 2
    /\ obs.vary = "lastRandom"
    /\ newGeneration[2] # twin.newGeneration[2]

\* The nodes of old with the subtree at i replaced by the subtree of donor at j,
\* as values and child counts.
SplicedValues(old, i, donor, j) ==
    SubSeq(ValuesOf(old), 1, i)
        \o SubSeq(ValuesOf(donor), j + 1, j + donor[j + 1].subTreeSize)
        \o SubSeq(ValuesOf(old), i + old[i + 1].subTreeSize + 1, Len(old))

SplicedChildCounts(old, i, donor, j) ==
    SubSeq(ChildCountsOf(old), 1, i)
        \o SubSeq(ChildCountsOf(donor), j + 1, j + donor[j + 1].subTreeSize)
        \o SubSeq(ChildCountsOf(old), i + old[i + 1].subTreeSize + 1, Len(old))

\* new is old with the subtree at i replaced by the subtree of donor at j.
IsSpliceOf(new, old, i, donor, j) ==
    /\ ValuesOf(new) = SplicedValues(old, i, donor, j)
    /\ ChildCountsOf(new) = SplicedChildCounts(old, i, donor, j)
    /\ TreeInvariant(new)

\* The indices of the nodes of genome whose definition has the given result type.
NodesOfType(genome, type) ==
    {n \in 0..(Len(genome) - 1) : PopGrammar.defs[
         definitionIdForTreeGenomeValue(PopGrammar, genome[n + 1].value) + 1].type = type}

\* C24: a crossover of A at node i with a partner B that has a node of the result
\* type of A[i] picks j among exactly the indices of B whose node has that type,
\* and swaps the subtrees: afterwards A is the old A with the subtree at i replaced
\* by the old subtree of B at j, and B the old B with the subtree at j replaced by
\* the old subtree of A at i.  twin is the run before the step.
C24_Swap ==
    /\ (turn = "first" /\ ppc = "vary")
           => \A d \in CrossoverDraws :
                  LET A == newGeneration[loopIndex + 1]
                      B == newGeneration[partnerIndex(d[1], loopIndex) + 1]
                      typed == NodesOfType(B, getType(grammar, A[d[2] + 1].value))
                  IN  typed # {}
                          => {e[3] : e \in {c \in CrossoverDraws :
                                                c[1] = d[1] /\ c[2] = d[2]}} = typed
    /\ (turn = "swap" /\ lastDraw.action = "crossover")
           => LET at == twin.loopIndex
                  partner == partnerIndex(lastDraw.draw[1], at)
                  i == lastDraw.draw[2]
                  j == lastDraw.draw[3]
                  A == twin.newGeneration[at + 1]
                  B == twin.newGeneration[partner + 1]
                  typed == NodesOfType(B, getType(grammar, A[i + 1].value))
              IN  typed # {}
                      => /\ j \in typed
                         /\ ppc \in {"vary", "finish"}
                         /\ IsSpliceOf(newGeneration[at + 1], A, i, B, j)
                         /\ IsSpliceOf(newGeneration[partner + 1], B, j, A, i)

\* The last genome of the loop, g(c), has been crossed over at its root with an
\* earlier genome that a mutation had made f(x), at its node x: the genomes are
\* now x and f(g(c)).
C24_Witness ==
    /\ turn = "swap" /\ lastDraw.action = "crossover"
    /\ twin.newGeneration[twin.loopIndex + 1] = TreeGC
    /\ twin.newGeneration[partnerIndex(lastDraw.draw[1], twin.loopIndex) + 1] = TreeFX
    /\ lastDraw.draw[2] = 0 /\ lastDraw.draw[3] = 1
    /\ newGeneration[twin.loopIndex + 1] = TreeX
    /\ ValuesOf(newGeneration[partnerIndex(lastDraw.draw[1], twin.loopIndex) + 1])
           = <<ValueOf("f"), ValueOf("g"), ValueOf("c")>>

\* C25: mutate picks a node index i in 0..count-1 of the genome, asks the host for
\* generateRandomTreeOfType(t), t being the result type of the node at i, and
\* replaces the subtree at i by that tree: the nodes outside the subtree keep
\* their values and their order, and no other genome of the new generation and
\* no individual is changed.  twin is the run before the step.
C25_Mutation ==
    /\ (turn = "first" /\ ppc = "vary")
           => {d[1] : d \in MutateDraws}
                  = 0..(getNodeCount(newGeneration[loopIndex + 1]) - 1)
    /\ (turn = "swap" /\ lastDraw.action = "mutate")
           => LET at == twin.loopIndex
                  old == twin.newGeneration[at + 1]
                  i == lastDraw.draw[1]
                  hostTree == lastDraw.draw[2]
                  size == old[i + 1].subTreeSize
                  new == newGeneration[at + 1]
              IN  /\ i \in 0..(Len(old) - 1)
                  /\ hostTree \in generateRandomTreeOfType(
                                  PopGrammar.defs[definitionIdForTreeGenomeValue(
                                      PopGrammar, old[i + 1].value) + 1].type)
                  /\ ppc \in {"vary", "finish"}
                  /\ IsSpliceOf(new, old, i, hostTree, 0)
                  /\ Len(new) = Len(old) - size + Len(hostTree)
                  /\ \A k \in 1..i : new[k].value = old[k].value
                  /\ \A k \in (i + size + 1)..Len(old) :
                         new[k - size + Len(hostTree)].value = old[k].value
                  /\ \A k \in (1..Len(newGeneration)) \ {at + 1} :
                         newGeneration[k] = twin.newGeneration[k]
                  /\ Len(newGeneration) = Len(twin.newGeneration)
                  /\ individuals = twin.individuals

\* The node c of g(c) has been replaced by the host's tree of its type; the root
\* and every other genome are as before.
C25_Witness ==
    /\ turn = "swap" /\ lastDraw.action = "mutate"
    /\ twin.newGeneration[twin.loopIndex + 1] = TreeGC
    /\ lastDraw.draw = <<1, TreeC>>
    /\ newGeneration = twin.newGeneration
    /\ twin.loopIndex = 1

(***************************************************************************)
(* Properties of replace with an aliased subtree.                          *)
(***************************************************************************)
\* C20 as stated: replace(i, sub) with sub the tree itself copies sub first: the
\* call returns and the tree is what replace gives for an independent copy of sub
\* taken before the call.
C20_AsStated ==
    [][ (lastOp'[1] = "replaceAliased" /\ lastOp'[2] < Len(tree.genome))
            => /\ pc' = "run"
               /\ tree'.genome = replace(tree.genome, lastOp'[2], tree.genome).nodes ]_vars

(***************************************************************************)
(* Well-typedness of the population.                                       *)
(***************************************************************************)
\* The definition of the host's grammar a node value stands for.
HostDefinitionOf(value) ==
    PopGrammar.defs[definitionIdForTreeGenomeValue(PopGrammar, value) + 1]

RootType(genome) == HostDefinitionOf(genome[1].value).type

\* Every node has as many children as its definition has arguments, and the
\* result type of its k-th child is the type of the k-th argument.
WellTyped(genome) ==
    /\ TreeInvariant(genome)
    /\ \A n \in 0..(Len(genome) - 1) :
           LET def == HostDefinitionOf(genome[n + 1].value)
               ids == ChildIds(genome, n + 1, genome[n + 1].childCount)
           IN  /\ genome[n + 1].childCount = Len(def.args)
               /\ \A k \in 1..Len(ids) :
                      /\ ids[k] # -1
                      /\ HostDefinitionOf(genome[ids[k] + 1].value).type = def.args[k]

\* The host keeps its side: the trees of generateRandomTreeOfType(t) are well
\* typed and their root has type t; the initializer's genomes are well typed.
HostWellTyped ==
    /\ \A n \in 1..Len(PopGrammar.types) :
           \A hostTree \in generateRandomTreeOfType(PopGrammar.types[n]) :
               WellTyped(hostTree) /\ RootType(hostTree) = PopGrammar.types[n]
    /\ \A first \in InitialGenomes : WellTyped(first)

\* C27: with well-typed initial individuals and a host whose
\* generateRandomTreeOfType(t) returns well-typed trees of root type t, every
\* individual and every genome of the generation being made is well typed at every
\* point of every nextGeneration, after mutations and crossovers, successful or
\* failed; a step of the variation loop keeps the result type of every root.
\* twin is the run before the step.
C27_WellTyped ==
    HostWellTyped
        => /\ \A k \in 1..Len(individuals) : WellTyped(individuals[k])
           /\ \A k \in 1..Len(newGeneration) : WellTyped(newGeneration[k])
           /\ (turn = "swap" /\ lastDraw.action \in {"reproduce", "mutate", "crossover"})
                  => /\ Len(newGeneration) = Len(twin.newGeneration)
                     /\ \A k \in 1..Len(newGeneration) :
                            RootType(newGeneration[k]) = RootType(twin.newGeneration[k])

\* A generation made with a mutation and a crossover of the last index holds
\* f(g(c)), with nodes of both types.
C27_Witness ==
    /\ turn = "swap" /\ lastDraw.action = "finish"
    /\ ppc = "idle" /\ generation = 1 /\ obs.vary = "lastRandom"
    /\ \E k \in 1..Len(individuals) :
           /\ Len(individuals[k]) = 3
           /\ ValuesOf(individuals[k]) = <<ValueOf("f"), ValueOf("g"), ValueOf("c")>>
           /\ WellTyped(individuals[k])

(***************************************************************************)
(* Properties of generate at the last layer of a type without terminals.   *)
(***************************************************************************)
\* The call at the head of the work is generate(builder, maxDepth, strategy, type)
\* with maxDepth <= 1 for a type whose definition set has no terminals.
DepthExhausted ==
    /\ gpc = "run"
    /\ work # <<>> /\ Head(work)[1] = "generate"
    /\ Head(work)[2] <= 1
    /\ Head(work)[3] # invalidTypeId
    /\ ~hasTerminals(definitionSetForType(grammar, Head(work)[3]))

\* C21 as stated: generateFull or generateGrow asked with maxDepth <= 1 for a node
\* of a type that has no terminals flags the error GenerationDepthExhausted: the
\* call adds no node and no call is made below the requested depth.
C21_AsStated ==
    [][ DepthExhausted
            => /\ gpc' = "GenerationDepthExhausted"
               /\ builder' = builder
               /\ work' = work ]_vars

(***************************************************************************)
(* Properties of select.                                                   *)
(***************************************************************************)
\* Of the three samples, the first whose fitness no other sample exceeds.
FirstBest(fit, s) ==
    s[CHOOSE j \in 0..2 :
          /\ \A k \in 0..2 : fit[s[k] + 1] <= fit[s[j] + 1]
          /\ \A k \in 0..(j - 1) : fit[s[k] + 1] < fit[s[j] + 1]]

\* C22: select fills exactly N - 3 slots behind the two elites; for each slot it
\* draws three indices in 0..N-1, with replacement, and appends a copy of the drawn
\* individual of the highest fitness, the first drawn among equal fitnesses; the
\* individuals and the fitnesses are not modified.
C22_Tournament ==
    [][ ppc = "select"
            => LET size == Len(individuals)
                   s == lastDraw'.draw
               IN  /\ lastDraw'.action = "select"
                   /\ \A j \in 0..2 : s[j] \in 0..(size - 1)
                   /\ newGeneration'
                          = Append(newGeneration, individuals[FirstBest(fitnesses, s) + 1])
                   /\ individuals' = individuals
                   /\ fitnesses' = fitnesses
                   /\ ppc' = IF Len(newGeneration') = 2 + (size - 3) THEN "vary"
                             ELSE "select"
                   /\ Len(newGeneration') <= 2 + (size - 3) ]_vars

\* The second of the two tournaments of a population of five: f(x) was drawn
\* first, then g(c) of the same fitness, then the less fit x, and f(x) was
\* appended.
C22_Witness ==
    /\ ppc = "vary" /\ Len(individuals) = 5 /\ Len(newGeneration) = 4
    /\ hostFitness = "large"
    /\ lastDraw.action = "select"
    /\ individuals[lastDraw.draw[0] + 1] = TreeFX
    /\ individuals[lastDraw.draw[1] + 1] = TreeGC
    /\ individuals[lastDraw.draw[2] + 1] = TreeX
    /\ newGeneration[4] = TreeFX

(***************************************************************************)
(* Termination of generate.                                                *)
(***************************************************************************)
\* Every type of the grammar has a terminal and, when generateFull is asked for a
\* depth above 1, a function.
Generable ==
    /\ EveryTypeHasTerminals
    /\ (request.strategy = "Full" /\ request.maxDepth > 1) => EveryTypeHasFunctions

\* The remaining depths of the calls of generate still to be made.
PendingDepths == {work[k][2] : k \in {n \in 1..Len(work) : work[n][1] = "generate"}}

\* A type without terminals whose functions all take an argument of the type.
FeedsItself(type) ==
    LET set == definitionSetForType(grammar, type)
    IN  /\ type # invalidTypeId
        /\ ~hasTerminals(set)
        /\ \A k \in 1..Len(set.functions) :
               \E a \in 1..Len(set.functions[k].args) : set.functions[k].args[a] = type

\* C26: for a grammar in which every type has a terminal (and a function when
\* generateFull is asked for a depth above 1), generateFull and generateGrow
\* return after finitely many calls for every maxDepth >= 1 and every type, and no
\* call is made with a remaining depth below 1; a call with maxDepth <= 1 for a type
\* without terminals goes on with a function whose arguments are generated at
\* depth <= 0, and for a type whose functions all take an argument of that type
\* generate does not return.
C26_Termination ==
    /\ Generable => <>(gpc = "done")
    /\ [](Generable => /\ \A d \in PendingDepths : d >= 1
                       /\ \A k \in 1..Len(made) : made[k] >= 1
                       /\ gpc # "undefined")
    /\ [][ (DepthExhausted /\ gpc' # "undefined")
               => /\ Len(builder'.nodes) = Len(builder.nodes) + 1
                  /\ Head(work')[1] = "generate"
                  /\ Head(work')[2] = Head(work)[2] - 1
                  /\ Head(work')[2] <= 0 ]_vars
    /\ [](FeedsItself(request.type) => gpc # "done")

\* generateFull has returned a tree of depth 3 made of six calls, the last ones
\* with remaining depth 1.
C26_Witness ==
    /\ gpc = "done" /\ Generable
    /\ request.strategy = "Full" /\ request.maxDepth = 3
    /\ Len(made) = 6
    /\ made[6] = 1

\* generate for the type that feeds itself is ten calls below depth 1 and has
\* more to make.
C26_WitnessRegress ==
    /\ gpc = "run" /\ FeedsItself(request.type)
    /\ Len(builder.nodes) >= 10
    /\ \E d \in PendingDepths : d <= 0 - 7

====
